---- MODULE Spec2Model ----
(***************************************************************************)
(* A model of the smoke property-testing engine: the splittable random     *)
(* source (rand.rs), the generator combinators (generator.rs), the         *)
(* TestResults aggregate (ux.rs), the Ensure harness (run.rs) and the lazy *)
(* shared seed (initonce.rs).                                              *)
(*                                                                         *)
(* Machine integers are kept at their width.  A u64 is a sequence of 8     *)
(* bytes and a u32 a sequence of 4 bytes, least significant byte first, so *)
(* that the wrapping 64-bit arithmetic of the random source is computed    *)
(* exactly as the code computes it.                                        *)
(***************************************************************************)
EXTENDS Integers, Sequences, FiniteSets, TLC

(***************************************************************************)
(* Fixed-width arithmetic on little-endian byte sequences.                 *)
(***************************************************************************)

\* 2^n for 0 <= n <= 8
Pow2(n) == CASE n = 0 -> 1 [] n = 1 -> 2 [] n = 2 -> 4 [] n = 3 -> 8
             [] n = 4 -> 16 [] n = 5 -> 32 [] n = 6 -> 64 [] n = 7 -> 128
             [] OTHER -> 256

\* the n bytes f[1] .. f[n] as a sequence
Bytes(f, n) == SubSeq(f, 1, n)

\* byte i (1-based) of x, 0 beyond its width
ByteAt(x, i) == IF i >= 1 /\ i <= Len(x) THEN x[i] ELSE 0

\* the width-n value of a small natural v (v < 2^31)
RECURSIVE ToBytes(_, _)
ToBytes(v, n) == IF n = 0 THEN <<>> ELSE <<v % 256>> \o ToBytes(v \div 256, n - 1)

\* `x as uN` for a narrower N, and the zero extension `x as u64`
Truncate(x, n) == SubSeq(x, 1, n)
ZeroExtend(x, n) == Bytes([i \in 1..n |-> ByteAt(x, i)], n)

\* u64::wrapping_add
RECURSIVE AddCarry(_, _, _, _)
AddCarry(a, b, i, c) ==
    IF i > Len(a) THEN <<>>
    ELSE LET s == a[i] + b[i] + c
         IN  <<s % 256>> \o AddCarry(a, b, i + 1, s \div 256)
WrappingAdd(a, b) == AddCarry(a, b, 1, 0)

\* u64::wrapping_mul: schoolbook product, columns above the width dropped
RECURSIVE ColumnSum(_, _, _, _)
ColumnSum(a, b, k, i) ==
    IF i > k THEN 0 ELSE a[i] * b[k + 1 - i] + ColumnSum(a, b, k, i + 1)
RECURSIVE MulCarry(_, _, _, _)
MulCarry(a, b, k, c) ==
    IF k > Len(a) THEN <<>>
    ELSE LET s == ColumnSum(a, b, k, 1) + c
         IN  <<s % 256>> \o MulCarry(a, b, k + 1, s \div 256)
WrappingMul(a, b) == MulCarry(a, b, 1, 0)

\* x >> s, the width kept
ShiftRight(x, s) ==
    LET q == s \div 8
        t == s % 8
    IN  Bytes([i \in 1..Len(x) |->
                  (ByteAt(x, i + q) \div Pow2(t))
                  + (ByteAt(x, i + q + 1) % Pow2(t)) * Pow2(8 - t)], Len(x))

\* bitwise xor and the `| 1` of R::next
RECURSIVE XorByte(_, _, _)
XorByte(a, b, n) ==
    IF n = 0 THEN 0
    ELSE ((a + b) % 2) + 2 * XorByte(a \div 2, b \div 2, n - 1)
Xor(a, b) == Bytes([i \in 1..Len(a) |-> XorByte(a[i], b[i], 8)], Len(a))
OrOne(x) == Bytes([i \in 1..Len(x) |-> IF i = 1 THEN x[1] + (1 - (x[1] % 2)) ELSE x[i]], Len(x))

\* x % d for a small divisor d (0 < d < 2^23), as a natural
RECURSIVE RemFrom(_, _, _, _)
RemFrom(x, i, d, acc) ==
    IF i = 0 THEN acc ELSE RemFrom(x, i - 1, d, (acc * 256 + x[i]) % d)
Rem(x, d) == RemFrom(x, Len(x), d, 0)

\* u32::rotate_right
RotateRight(x, rot) ==
    LET n == Len(x)
        q == rot \div 8
        t == rot % 8
    IN  Bytes([i \in 1..n |->
                  (x[((i - 1 + q) % n) + 1] \div Pow2(t))
                  + (x[((i + q) % n) + 1] % Pow2(t)) * Pow2(8 - t)], n)

(***************************************************************************)
(* State.  Each specification below drives one group of variables and      *)
(* leaves the others idle.                                                 *)
(***************************************************************************)

VARIABLES
    overflow_checks,  \* the build's overflow-checks setting (debug: TRUE)
    \* run.rs: the harness
    ctx,              \* Context {seed, nb_tests, test_results}
    no_catch_panic,   \* SMOKE_NO_PANIC_CATCH is set
    pc,               \* where run() is: "body", "test", "eval", "aborted"
    ensure,           \* the Ensure {generator, property_closure} being run
    r,                \* Ensure::test: `r`
    test_rng,         \* Ensure::test: `test_rng`, as handed to the generator
    iter,             \* Ensure::test: iterations completed
    result,           \* Ensure::test: `result`
    input,            \* Ensure::test: `input`, with what generating it did
    panic,            \* payload of the panic unwinding out of run()
    returned,         \* the TestResults the last Ensure::test returned
    ensures_run,      \* Ensure::run calls the body has made
    last,             \* history: how the last iteration was classified
    report,           \* what run() printed and raised once the body returned
    \* ux.rs: two TestResults values
    trs,
    trop,             \* history: the last operation made on them
    \* rand.rs: two sources driven by one script
    clock,            \* the system time
    srcA, srcB,       \* [root, kids, outs]: a source, its children, its outputs
    script,           \* the operations applied to srcA so far
    replayed,         \* how many of them srcB has applied
    \* rand.rs: num_range calls
    nstream,          \* the source
    ncall,            \* the last call: its type, bounds and outcome
    ncalls,
    \* generator.rs: a gen call
    gstream,          \* the source handed to gen
    gsteps,           \* draws made on it before the call
    gcall,            \* the call: the generator, the source before, the outcome
    built,            \* what a constructor of a generator returned or raised
    \* initonce.rs
    status,           \* InitOnce::status
    content,          \* InitOnce::content
    tpc,              \* each thread's position in load()
    tstatus,          \* each thread's local `status`
    tvalue,           \* each thread's local `value`
    loads,            \* load() calls each thread has returned from
    got,              \* what each thread's last load() returned
    f_runs,           \* history: the calls of the initializer
    \* rand.rs, Seed as text
    seed_in,          \* the Seed given to to_string
    text,             \* the string written, or the one given to from_str
    parsed,           \* what Seed::from_str returned
    \* property/api.rs
    property,         \* a property built from outcomes with and / or
    outcome,          \* what Property::result gave for it
    \* rand.rs, R::sub
    parent,           \* a source
    parent_steps,     \* draws made on it
    children,         \* the two sources of two consecutive sub() calls
    \* run.rs, the panic hook of the process
    hook,             \* the hook registered now
    hook_before,      \* history: the hook registered before any run()
    rpc,              \* each thread's position in run()
    seen              \* history: the hooks that panics in each body invoked

harnessVars == <<ctx, no_catch_panic, pc, ensure, r, test_rng, iter, result,
                 input, panic, returned, ensures_run, last, report>>
resultsVars == <<trs, trop>>
randVars == <<clock, srcA, srcB, script, replayed>>
numVars == <<nstream, ncall, ncalls>>
genVars == <<gstream, gsteps, gcall, built>>
onceVars == <<status, content, tpc, tstatus, tvalue, loads, got, f_runs>>
seedVars == <<seed_in, text, parsed>>
propVars == <<property, outcome>>
subVars == <<parent, parent_steps, children>>
hookVars == <<hook, hook_before, rpc, seen>>

vars == <<overflow_checks, harnessVars, resultsVars, randVars, numVars, genVars, onceVars,
          seedVars, propVars, subVars, hookVars>>

None == [none |-> TRUE]

(***************************************************************************)
(* The random source, rand.rs.                                             *)
(***************************************************************************)

\* const MUL_FACTOR: u64 = 636_4136_2238_4679_3005 = 0x5851F42D4C957F2D
MUL_FACTOR == <<45, 127, 149, 76, 45, 244, 81, 88>>

\* Seed::generate.  DefaultHasher is not modelled: the hash of the time is
\* taken to be the time, that of the time and the thread id to be both.
generate(now, tid) == ToBytes(now * 16 + tid, 8) \o ToBytes(now, 8)

\* a source made like R::new makes it, from the time instead of the seed
from_seed_by_time(seed) ==
    [s0 |-> SubSeq(generate(clock, 0), 9, 16), s1 |-> SubSeq(generate(clock, 0), 1, 8)]

\* R::from_seed: R((seed.0 >> 64) as u64, seed.0 as u64); a Seed is 16 bytes
from_seed(seed) == [s0 |-> SubSeq(seed, 9, 16), s1 |-> SubSeq(seed, 1, 8)]

\* R::next, the state after the call
next_state(self) ==
    [s0 |-> WrappingAdd(WrappingMul(self.s0, MUL_FACTOR), OrOne(self.s1)), s1 |-> self.s1]

\* R::next, the u32 returned
next_output(self) ==
    LET old_state   == self.s0
        xor_shifted == Truncate(ShiftRight(Xor(ShiftRight(old_state, 18), old_state), 27), 4)
        rot         == old_state[8] \div 8
    IN  RotateRight(xor_shifted, rot)

\* a sub() that makes the child from the words of the advanced parent
sub_child_of_advanced(self) ==
    LET n == ZeroExtend(next_output(self), 8)
    IN  [s0 |-> WrappingMul(next_state(self).s0, n), s1 |-> WrappingAdd(self.s1, n)]

\* R::sub, the child returned (the parent moves to next_state)
sub_child(self) ==
    LET n == ZeroExtend(next_output(self), 8)
    IN  [s0 |-> WrappingMul(self.s0, n), s1 |-> WrappingAdd(self.s1, n)]

\* n consecutive R::next calls, the state after them (halving, and looking at
\* the state first, keep the evaluation shallow)
RECURSIVE next_n(_, _)
next_n(s, n) ==
    IF n = 0 \/ s = None THEN s
    ELSE IF n = 1 THEN next_state(s)
    ELSE next_n(next_n(s, n \div 2), n - (n \div 2))

(***************************************************************************)
(* rand.rs: Seed as text.  A string is the sequence of its characters.     *)
(***************************************************************************)

UpperHex == <<"0", "1", "2", "3", "4", "5", "6", "7", "8", "9",
              "A", "B", "C", "D", "E", "F">>
LowerHex == <<"0", "1", "2", "3", "4", "5", "6", "7", "8", "9",
              "a", "b", "c", "d", "e", "f">>

\* char::to_digit(16): the value of a digit of either case, -1 for none
to_digit(c) ==
    IF \E i \in 1..16 : UpperHex[i] = c THEN (CHOOSE i \in 1..16 : UpperHex[i] = c) - 1
    ELSE IF \E i \in 1..16 : LowerHex[i] = c THEN (CHOOSE i \in 1..16 : LowerHex[i] = c) - 1
    ELSE -1

\* {:08X} of a u32: eight uppercase digits, the most significant first
fmt_08X(w) ==
    <<UpperHex[(w[4] \div 16) + 1], UpperHex[(w[4] % 16) + 1],
      UpperHex[(w[3] \div 16) + 1], UpperHex[(w[3] % 16) + 1],
      UpperHex[(w[2] \div 16) + 1], UpperHex[(w[2] % 16) + 1],
      UpperHex[(w[1] \div 16) + 1], UpperHex[(w[1] % 16) + 1]>>

\* <Seed as Display>::fmt
to_string_low_word_first(self) ==
    fmt_08X(SubSeq(self, 1, 4)) \o <<"-">> \o fmt_08X(SubSeq(self, 5, 8)) \o <<"-">>
    \o fmt_08X(SubSeq(self, 9, 12)) \o <<"-">> \o fmt_08X(SubSeq(self, 13, 16))
to_string(self) ==
    fmt_08X(SubSeq(self, 13, 16)) \o <<"-">> \o fmt_08X(SubSeq(self, 9, 12)) \o <<"-">>
    \o fmt_08X(SubSeq(self, 5, 8)) \o <<"-">> \o fmt_08X(SubSeq(self, 1, 4))

\* str::split('-')
RECURSIVE SplitFrom(_, _, _)
SplitFrom(str, i, cur) ==
    IF i > Len(str) THEN <<cur>>
    ELSE IF str[i] = "-" THEN <<cur>> \o SplitFrom(str, i + 1, <<>>)
    ELSE SplitFrom(str, i + 1, Append(cur, str[i]))
split(str) == SplitFrom(str, 1, <<>>)

ParsedInt(w) == [ok |-> TRUE, value |-> w, kind |-> ""]
ParseIntError(k) == [ok |-> FALSE, value |-> <<>>, kind |-> k]

\* u32::from_str_radix(e, 16): an optional '+', then digits of either case,
\* any number of them while the value fits 32 bits
u32_from_str_radix_16(e) ==
    IF e = <<>> THEN ParseIntError("Empty")
    ELSE IF Len(e) = 1 /\ e[1] \in {"+", "-"} THEN ParseIntError("InvalidDigit")
    ELSE LET digits == IF e[1] = "+" THEN Tail(e) ELSE e
             k == Len(digits)
             nib(j) == IF k - 8 + j >= 1 THEN to_digit(digits[k - 8 + j]) ELSE 0
         IN  IF \E i \in 1..k : to_digit(digits[i]) = -1 THEN ParseIntError("InvalidDigit")
             ELSE IF \E i \in 1..(k - 8) : to_digit(digits[i]) # 0
                  THEN ParseIntError("PosOverflow")
             ELSE ParsedInt(<<nib(7) * 16 + nib(8), nib(5) * 16 + nib(6),
                              nib(3) * 16 + nib(4), nib(1) * 16 + nib(2)>>)

SeedOk(sd) == [ok |-> TRUE, seed |-> sd, err |-> ""]
SeedErr(e) == [ok |-> FALSE, seed |-> <<>>, err |-> e]

\* <Seed as FromStr>::from_str
from_str(str) ==
    LET chunk == [i \in 1..Len(split(str)) |-> u32_from_str_radix_16(split(str)[i])]
    IN  IF Len(chunk) = 4
        THEN IF chunk[1].ok /\ chunk[2].ok /\ chunk[3].ok /\ chunk[4].ok
             THEN SeedOk(chunk[4].value \o chunk[3].value \o chunk[2].value \o chunk[1].value)
             ELSE IF ~chunk[1].ok
                  THEN SeedErr("cannot parse 1st element as hexadecimal integer")
             ELSE IF ~chunk[2].ok
                  THEN SeedErr("cannot parse 2nd element as hexadecimal integer")
             ELSE IF ~chunk[3].ok
                  THEN SeedErr("cannot parse 3rd element as hexadecimal integer")
             ELSE SeedErr("cannot parse 4th element as hexadecimal integer")
        ELSE SeedErr("expecting 4 hexadecimal values separated by -")

(***************************************************************************)
(* Panics.  A payload is its dynamic type and its message.                 *)
(***************************************************************************)

NoPanic == [ty |-> "none", msg |-> ""]
\* generator.rs: struct SuchThatRetryFailure
SuchThatRetryFailure == [ty |-> "SuchThatRetryFailure", msg |-> ""]
StrPanic(m) == [ty |-> "&str", msg |-> m]
StringPanic(m) == [ty |-> "String", msg |-> m]
AnyPanic == [ty |-> "other", msg |-> ""]

(***************************************************************************)
(* rand.rs: NumPrimitive for u8, i8 and NonZeroU8.                         *)
(***************************************************************************)

\* a call's outcome: the value returned and the stream after the call, or
\* the panic raised; `drawn` counts the candidates a such_that loop drew
Returned(v, s) == [ok |-> TRUE, value |-> v, r |-> s, panic |-> NoPanic, drawn |-> 0]
Panicked(p, s) == [ok |-> FALSE, value |-> None, r |-> s, panic |-> p, drawn |-> 0]

\* u8::num
num_u8(s) == Returned(next_output(s)[1], next_state(s))

\* u8::num_range.  `max_value - min_value + 1` overflows u8 on the full
\* domain: with overflow checks the addition panics, without them diff wraps
\* to 0 and the remainder panics.
num_range_u8(s, min_value, max_value) ==
    IF ~(min_value <= max_value)
    THEN Panicked(StrPanic("assertion failed: min_value <= max_value"), s)
    ELSE IF max_value - min_value + 1 > 255
    THEN IF overflow_checks
         THEN Panicked(StrPanic("attempt to add with overflow"), s)
         ELSE Panicked(StrPanic("attempt to calculate the remainder with a divisor of zero"),
                       next_state(s))
    ELSE LET diff == max_value - min_value + 1
         IN  Returned(min_value + (next_output(s)[1] % diff), next_state(s))

\* `x as u8` of an i8 and `x as i8` of a u8
AsU8(x) == IF x < 0 THEN x + 256 ELSE x
AsI8(x) == IF x > 127 THEN x - 256 ELSE x

\* define_NumPrimitive_impl_signed!(i8, u8): num_range
num_range_i8(s, min_value, max_value) ==
    IF ~(min_value <= max_value)
    THEN Panicked(StrPanic("assertion failed: min_value <= max_value"), s)
    ELSE LET u == num_range_u8(s, AsU8(min_value), AsU8(max_value))
         IN  IF u.ok THEN Returned(AsI8(u.value), u.r) ELSE u

\* define_NumPrimitive_impl_nonzero!(NonZeroU8, u8): num_range, whose loop
\* draws again on a zero
RECURSIVE num_range_nonzero_u8(_, _, _)
num_range_nonzero_u8(s, min_value, max_value) ==
    IF ~(min_value <= max_value)
    THEN Panicked(StrPanic("assertion failed: min_value <= max_value"), s)
    ELSE LET u == num_range_u8(s, min_value, max_value)
         IN  IF ~u.ok THEN u
             ELSE IF u.value = 0 THEN num_range_nonzero_u8(u.r, min_value, max_value)
             ELSE u

\* <usize as NumPrimitive>::num_range for bounds below 2^23, where diff is
\* at most 0xffff_ffff: min_value + (r.next() as usize % diff)
num_range_usize(s, min_value, max_value) ==
    IF ~(min_value <= max_value)
    THEN Panicked(StrPanic("assertion failed: min_value <= max_value"), s)
    ELSE Returned(min_value + Rem(next_output(s), max_value - min_value + 1), next_state(s))

\* r.num_range(0, len - 1) for the length of a slice.  For len = 0 the
\* subtraction overflows: with overflow checks it panics, without them
\* len - 1 is usize::MAX, diff wraps to 0 and the remainder panics
index_below(s, len) ==
    IF len = 0
    THEN IF overflow_checks
         THEN Panicked(StrPanic("attempt to subtract with overflow"), s)
         ELSE Panicked(StrPanic("attempt to calculate the remainder with a divisor of zero"),
                       next_state(s))
    ELSE num_range_usize(s, 0, len - 1)

\* R::num_range::<T>
num_range(ty, s, min_value, max_value) ==
    CASE ty = "u8" -> num_range_u8(s, min_value, max_value)
      [] ty = "i8" -> num_range_i8(s, min_value, max_value)
      [] OTHER     -> num_range_nonzero_u8(s, min_value, max_value)

(***************************************************************************)
(* generator.rs: the generators.  A generator is a record naming its kind  *)
(* and holding its fields.                                                 *)
(***************************************************************************)

\* the constructors
constant(t) == [kind |-> "constant", value |-> t]
num(ty) == [kind |-> "num", ty |-> ty]
range(start, end) == [kind |-> "range", start |-> start, end |-> end]
\* such_that with a budget of 999 retries
such_that_retry_999(g, f) == [kind |-> "such_that", retry |-> 999, generator |-> g, f |-> f]

such_that(g, f) == [kind |-> "such_that", retry |-> 1000, generator |-> g, f |-> f]
and(a, b) == [kind |-> "and", gen_a |-> a, gen_b |-> b]
tuple(gs) == [kind |-> "tuple", gens |-> gs]
or(self, other) == [kind |-> "or", gen_a |-> self, gen_b |-> other]

\* what a constructor that can fail gives: the generator, or its panic
Constructed(g) == [ok |-> TRUE, generator |-> g, panic |-> NoPanic]
ConstructionPanic(p) == [ok |-> FALSE, generator |-> None, panic |-> p]

\* one_of(slice)
one_of(slice) == Constructed([kind |-> "one_of", data |-> slice])

\* Frequency::new: the index of each generator pushed `weight` times
RECURSIVE ExpandWeights(_, _)
ExpandWeights(gens, i) ==
    IF i > Len(gens) THEN <<>>
    ELSE [k \in 1..gens[i].weight |-> i - 1] \o ExpandWeights(gens, i + 1)
Frequency_new_unweighted(gens) ==
    [kind |-> "frequency", frequencies |-> [i \in 1..Len(gens) |-> i - 1], generators |-> gens]
Frequency_new(gens) ==
    [kind |-> "frequency", frequencies |-> ExpandWeights(gens, 1), generators |-> gens]

\* frequency(gens), gens a sequence of [weight, gen]
frequency(gens) ==
    IF gens = <<>>
    THEN ConstructionPanic(StrPanic("assertion failed: !gens.is_empty()"))
    ELSE Constructed(Frequency_new(gens))

\* choose(gens), with Choose::new
choose(gens) ==
    IF gens = <<>>
    THEN ConstructionPanic(StrPanic("assertion failed: !gens.is_empty()"))
    ELSE Constructed([kind |-> "choose", generators |-> gens])

\* the predicates given to such_that (user code)
Accepts(f, x) ==
    CASE f = "odd"   -> x % 2 = 1
      [] f = "lt16"  -> x < 16
      [] f = "never" -> FALSE
      [] OTHER       -> TRUE

RECURSIVE gen(_, _)
RECURSIVE tuple_gen(_, _, _)
RECURSIVE such_that_passes(_, _, _)

\* And::gen with both components drawing from the shared source
and_gen_shared(g, s) ==
    LET a == gen(g.gen_a, s)
        b == gen(g.gen_b, a.r)
    IN  IF ~a.ok THEN Panicked(a.panic, a.r)
        ELSE IF ~b.ok THEN Panicked(b.panic, b.r)
        ELSE Returned(<<a.value, b.value>>, b.r)

\* And::gen: (self.gen_a.gen(&mut r.sub()), self.gen_b.gen(&mut r.sub()))
and_gen(g, s) ==
    LET a == gen(g.gen_a, sub_child(s))
        s1 == next_state(s)
        b == gen(g.gen_b, sub_child(s1))
        s2 == next_state(s1)
    IN  IF ~a.ok THEN Panicked(a.panic, s1)
        ELSE IF ~b.ok THEN Panicked(b.panic, s2)
        ELSE Returned(<<a.value, b.value>>, s2)

\* TupleN::gen and ProductN::gen: ($( self.$type_name.gen(&mut r.sub()) ),*)
tuple_gen(gs, k, s) ==
    IF k > Len(gs) THEN Returned(<<>>, s)
    ELSE LET x == gen(gs[k], sub_child(s))
             s1 == next_state(s)
         IN  IF ~x.ok THEN Panicked(x.panic, s1)
             ELSE LET rest == tuple_gen(gs, k + 1, s1)
                  IN  IF ~rest.ok THEN rest
                      ELSE Returned(<<x.value>> \o rest.value, rest.r)

\* the pass of a loop that returns the last candidate when the budget is spent
such_that_pass_giving_up(g, st, x) ==
    IF ~x.ok
    THEN [next |-> "unwind", retry |-> st.retry,
          out |-> [x EXCEPT !.drawn = st.out.drawn + 1]]
    ELSE IF Accepts(g.f, x.value) \/ st.retry = 0
    THEN [next |-> "break", retry |-> st.retry,
          out |-> [x EXCEPT !.drawn = st.out.drawn + 1]]
    ELSE [next |-> "loop", retry |-> st.retry - 1,
          out |-> [x EXCEPT !.drawn = st.out.drawn + 1]]

\* SuchThat::gen, one pass of its loop from the loop state st = [next, out,
\* retry]: draw a candidate from the same stream, break on acceptance, panic
\* when `retry` is 0, otherwise count it down
such_that_pass(g, st, x) ==
    IF ~x.ok
    THEN [next |-> "unwind", retry |-> st.retry,
          out |-> [x EXCEPT !.drawn = st.out.drawn + 1]]
    ELSE IF Accepts(g.f, x.value)
    THEN [next |-> "break", retry |-> st.retry,
          out |-> [x EXCEPT !.drawn = st.out.drawn + 1]]
    ELSE IF st.retry = 0
    THEN [next |-> "unwind", retry |-> st.retry,
          out |-> [Panicked(SuchThatRetryFailure, x.r) EXCEPT !.drawn = st.out.drawn + 1]]
    ELSE [next |-> "loop", retry |-> st.retry - 1,
          out |-> [x EXCEPT !.drawn = st.out.drawn + 1]]

\* at most n passes of the loop from st (halving keeps the evaluation shallow)
such_that_passes(g, st, n) ==
    IF st.next # "loop" \/ n = 0 THEN st
    ELSE IF n = 1 THEN such_that_pass(g, st, gen(g.generator, st.out.r))
    ELSE such_that_passes(g, such_that_passes(g, st, n \div 2), n - (n \div 2))

\* SuchThat::gen: the loop run until it breaks or panics, which it does
\* within retry + 1 passes
such_that_gen(g, s) ==
    such_that_passes(g, [next |-> "loop", retry |-> g.retry, out |-> Returned(None, s)],
                     g.retry + 2).out

\* OneOf::gen
one_of_gen(g, s) ==
    LET nb == index_below(s, Len(g.data))
    IN  IF ~nb.ok THEN nb ELSE Returned(g.data[nb.value + 1], nb.r)

\* Frequency::gen: the generator at the position drawn, on r.sub()
frequency_gen(g, s) ==
    LET nb == index_below(s, Len(g.frequencies))
    IN  IF ~nb.ok THEN nb
        ELSE LET idx == g.frequencies[nb.value + 1]
                 x == gen(g.generators[idx + 1].gen, sub_child(nb.r))
             IN  IF ~x.ok THEN Panicked(x.panic, next_state(nb.r))
                 ELSE Returned(x.value, next_state(nb.r))

\* R::bool: (self.next() % 2) == 1
bool(s) == [value |-> Rem(next_output(s), 2) = 1, r |-> next_state(s)]

\* Or::gen with the selected generator drawing from r itself
or_gen_on_r(g, s) ==
    LET b == bool(s)
        x == gen(IF b.value THEN g.gen_a ELSE g.gen_b, b.r)
    IN  IF ~x.ok THEN Panicked(x.panic, x.r)
        ELSE Returned(x.value, x.r)

\* Or::gen: r.bool() selects gen_a or gen_b, which draws from r.sub()
or_gen(g, s) ==
    LET b == bool(s)
        x == gen(IF b.value THEN g.gen_a ELSE g.gen_b, sub_child(b.r))
    IN  IF ~x.ok THEN Panicked(x.panic, next_state(b.r))
        ELSE Returned(x.value, next_state(b.r))

\* Choose::gen: the generator at the index drawn, on r.sub()
choose_gen(g, s) ==
    LET nb == index_below(s, Len(g.generators))
    IN  IF ~nb.ok THEN nb
        ELSE LET x == gen(g.generators[nb.value + 1], sub_child(nb.r))
             IN  IF ~x.ok THEN Panicked(x.panic, next_state(nb.r))
                 ELSE Returned(x.value, next_state(nb.r))

\* Generator::gen
gen(g, s) ==
    CASE g.kind = "constant" -> Returned(g.value, s)
      [] g.kind = "num" ->
            CASE g.ty = "u8"  -> num_u8(s)
              [] g.ty = "u32" -> Returned(next_output(s), next_state(s))
              [] OTHER        -> \* u64: v1 << 32 | v2
                    Returned(next_output(next_state(s)) \o next_output(s), next_n(s, 2))
      [] g.kind = "range" -> num_range("u8", s, g.start, g.end)
      [] g.kind = "such_that" -> such_that_gen(g, s)
      [] g.kind = "and" -> and_gen(g, s)
      [] g.kind = "one_of" -> one_of_gen(g, s)
      [] g.kind = "frequency" -> frequency_gen(g, s)
      [] g.kind = "or" -> or_gen(g, s)
      [] g.kind = "choose" -> choose_gen(g, s)
      [] OTHER -> tuple_gen(g.gens, 1, s)

(***************************************************************************)
(* ux.rs: Element and Value, the tree of a diagnostic.                     *)
(***************************************************************************)

\* Value::Str, Value::Tree
Str(s) == [str |-> s]
Tree(elements) == [tree |-> elements]

\* Element::new
Element_new(key, v) == [name |-> key, value |-> v]

\* Value::sub
Value_sub(element) == Tree(<<element>>)

\* display_element: the lines pushed to the output, each with its indent
RECURSIVE display_element(_, _), display_elements(_, _, _)
display_element(indent, element) ==
    IF "tree" \in DOMAIN element.value
    THEN <<[indent |-> indent, key |-> element.name, str |-> ""]>>
         \o display_elements(indent + 2, element.value.tree, 1)
    ELSE <<[indent |-> indent, key |-> element.name, str |-> element.value.str]>>
display_elements(indent, els, i) ==
    IF i > Len(els) THEN <<>>
    ELSE display_element(indent, els[i]) \o display_elements(indent, els, i + 1)

(***************************************************************************)
(* ux.rs: TestResults.                                                     *)
(***************************************************************************)

TestResults_new ==
    [nb_tests |-> 0, nb_success |-> 0, nb_failed |-> 0, nb_skipped |-> 0,
     failures |-> <<>>, duration |-> 0]

add_success(t) == [t EXCEPT !.nb_tests = @ + 1, !.nb_success = @ + 1]

add_failed(t, reason) ==
    [t EXCEPT !.nb_tests = @ + 1, !.nb_failed = @ + 1, !.failures = Append(@, reason)]

set_duration(t, d) == [t EXCEPT !.duration = d]

\* add_subtests putting the sub-tests' failure records first
add_subtests_prepending(t, sub_tests) ==
    [nb_tests   |-> t.nb_tests + sub_tests.nb_tests,
     nb_success |-> t.nb_success + sub_tests.nb_success,
     nb_failed  |-> t.nb_failed + sub_tests.nb_failed,
     nb_skipped |-> t.nb_skipped + sub_tests.nb_skipped,
     failures   |-> sub_tests.failures \o t.failures,
     duration   |-> t.duration + sub_tests.duration]

\* add_subtests taking the sub-tests' failure records for its own
add_subtests_replacing(t, sub_tests) ==
    [nb_tests   |-> t.nb_tests + sub_tests.nb_tests,
     nb_success |-> t.nb_success + sub_tests.nb_success,
     nb_failed  |-> t.nb_failed + sub_tests.nb_failed,
     nb_skipped |-> t.nb_skipped + sub_tests.nb_skipped,
     failures   |-> sub_tests.failures,
     duration   |-> t.duration + sub_tests.duration]

add_subtests(t, sub_tests) ==
    [nb_tests   |-> t.nb_tests + sub_tests.nb_tests,
     nb_success |-> t.nb_success + sub_tests.nb_success,
     nb_failed  |-> t.nb_failed + sub_tests.nb_failed,
     nb_skipped |-> t.nb_skipped + sub_tests.nb_skipped,
     failures   |-> t.failures \o sub_tests.failures,
     duration   |-> t.duration + sub_tests.duration]

\* a status that Failed is never
to_status_without_failed(t) ==
    IF t.nb_tests = 0 THEN "Skipped"
    ELSE IF t.nb_skipped = t.nb_tests THEN "Skipped"
    ELSE "Passed"

to_status(t) ==
    IF t.nb_tests = 0 THEN "Skipped"
    ELSE IF t.nb_failed > 0 THEN "Failed"
    ELSE IF t.nb_skipped = t.nb_tests THEN "Skipped"
    ELSE "Passed"

(***************************************************************************)
(* property: the relations, and the closures given to ensure (user code).  *)
(***************************************************************************)

\* RelationEq / RelationOrd; `debug` tells whether the operands' Debug
\* implementation returns or panics
Relation(op, left, right, debug) ==
    [op |-> op, left |-> left, right |-> right, debug |-> debug]
equal_to_itself(left, right) == Relation("==", left, left, "ok")
equal(left, right) == Relation("==", left, right, "ok")
less(left, right) == Relation("<", left, right, "ok")

\* NamedOp::op on the comparison of the operands
Holds(p) ==
    CASE p.op = "==" -> p.left = p.right
      [] p.op = "!=" -> p.left # p.right
      [] p.op = "<"  -> p.left < p.right
      [] p.op = "<=" -> p.left <= p.right
      [] p.op = ">"  -> p.left > p.right
      [] OTHER       -> p.left >= p.right

\* RelationEq::result / RelationOrd::result: the Outcome, or the panic of
\* format!("{:?}", ..) on the failure path
relation_result(p) ==
    IF Holds(p) THEN [panic |-> NoPanic, passed |-> TRUE, element |-> None]
    ELSE IF p.debug = "panics"
    THEN [panic |-> StrPanic("Debug"), passed |-> FALSE, element |-> None]
    ELSE [panic |-> NoPanic, passed |-> FALSE,
          element |-> Element_new(p.op,
                         Tree(<<Element_new("left", Str(ToString(p.left))),
                                Element_new("right", Str(ToString(p.right)))>>))]

\* Outcome
Passed == [passed |-> TRUE, element |-> None]
Failed(element) == [passed |-> FALSE, element |-> element]

\* Property::and, Property::or
Property_and(self, other) == [kind |-> "and", prop_a |-> self, prop_b |-> other]
Property_or(self, other) == [kind |-> "or", prop_a |-> self, prop_b |-> other]

IsRelation(p) == "op" \in DOMAIN p

RECURSIVE Property_result(_)

\* And::result, with its inner failure_element
failure_element(left, right) ==
    Failed(Element_new("and", Tree(<<Element_new("left", left), Element_new("right", right)>>)))
And_result_first_failure(self) ==
    LET a == Property_result(self.prop_a)
        b == Property_result(self.prop_b)
    IN  IF a.passed /\ b.passed THEN Passed
        ELSE IF ~a.passed THEN a
        ELSE b
And_result(self) ==
    LET a == Property_result(self.prop_a)
        b == Property_result(self.prop_b)
    IN  IF a.passed /\ b.passed THEN Passed
        ELSE IF ~a.passed /\ b.passed THEN failure_element(Value_sub(a.element), Str("passed"))
        ELSE IF a.passed /\ ~b.passed THEN failure_element(Str("passed"), Value_sub(b.element))
        ELSE failure_element(Value_sub(a.element), Value_sub(b.element))

\* Or::result
Or_result_flattened(self) ==
    LET a == Property_result(self.prop_a)
        b == Property_result(self.prop_b)
    IN  IF a.passed THEN Passed
        ELSE IF b.passed THEN Passed
        ELSE Failed(Element_new("or", Tree(<<a.element, b.element>>)))
Or_result(self) ==
    LET a == Property_result(self.prop_a)
        b == Property_result(self.prop_b)
    IN  IF a.passed THEN Passed
        ELSE IF b.passed THEN Passed
        ELSE Failed(Element_new("or",
                 Tree(<<Element_new("left", Value_sub(a.element)),
                        Element_new("right", Value_sub(b.element))>>)))

\* Property::result (relations whose Debug returns)
Property_result(p) ==
    IF IsRelation(p)
    THEN IF relation_result(p).passed THEN Passed ELSE Failed(relation_result(p).element)
    ELSE IF p.kind = "and" THEN And_result(p)
    ELSE Or_result(p)

\* the property closures: what the call on the input returns, or its panic
closure_call(f, x) ==
    CASE f = "equal_x_x" -> [panic |-> NoPanic, property |-> equal(x, x)]
      [] f = "equal_x_x1" ->
            IF x + 1 <= 255 THEN [panic |-> NoPanic, property |-> equal(x, x + 1)]
            ELSE IF overflow_checks
            THEN [panic |-> StrPanic("attempt to add with overflow"), property |-> None]
            ELSE [panic |-> NoPanic, property |-> equal(x, 0)]
      [] f = "less_x_128" -> [panic |-> NoPanic, property |-> less(x, 128)]
      [] f = "assert_lt_30" ->
            IF x < 30 THEN [panic |-> NoPanic, property |-> equal(x, x)]
            ELSE [panic |-> StringPanic("input too large"), property |-> None]
      [] f = "panic_any_odd" ->
            IF x % 2 = 0 THEN [panic |-> NoPanic, property |-> equal(x, x)]
            ELSE [panic |-> AnyPanic, property |-> None]
      [] OTHER -> \* "equal_loud": equal on a type whose Debug panics
            [panic |-> NoPanic, property |-> Relation("==", x % 2, 0, "panics")]

(***************************************************************************)
(* run.rs: the harness.                                                    *)
(***************************************************************************)

\* the message run_catch_panic extracts from a caught payload
PanicMessage(p) ==
    CASE p.ty = "SuchThatRetryFailure" -> "such that retry failure"
      [] p.ty = "&str"                 -> p.msg
      [] p.ty = "String"               -> p.msg
      [] OTHER                         -> "unknown type of panic error"

\* run_catch_panic without the catch_unwind
run_catch_panic_uncaught(o) ==
    IF o.panic = NoPanic THEN [tag |-> "Ok", value |-> o.property]
    ELSE [tag |-> "unwind", panic |-> o.panic]

\* run_catch_panic that does not read SMOKE_NO_PANIC_CATCH
run_catch_panic_always(o) ==
    IF o.panic = NoPanic THEN [tag |-> "Ok", value |-> o.property]
    ELSE [tag |-> "Err", msg |-> PanicMessage(o.panic)]

\* run_catch_panic(f), given what f() does: Ok(value), Err(PanicError), or the
\* panic unwinding through it when catching is disabled
run_catch_panic(o) ==
    IF o.panic = NoPanic THEN [tag |-> "Ok", value |-> o.property]
    ELSE IF no_catch_panic THEN [tag |-> "unwind", panic |-> o.panic]
    ELSE [tag |-> "Err", msg |-> PanicMessage(o.panic)]

\* Ensure::test: R::from_seed(context.seed)
test_stream(context) == from_seed(context.seed)

\* the sub-stream derived from a copy of r, which leaves r where it was
iteration_streams_of_copy(rr) == [test_rng |-> sub_child(rr), r |-> rr]

\* Ensure::test: `let mut test_rng = r.sub();`
iteration_streams(rr) == [test_rng |-> sub_child(rr), r |-> next_state(rr)]

\* the failure records of Ensure::test
PanicRecord(x, p) == [kind |-> "panic", input |-> x, message |-> p]
PropertyRecord(x, t) == [kind |-> "property failed", input |-> x, tree |-> t]

\* Ensure::test: the match on run_catch_panic(|| property_closure(&input))
\* and on p.result(); "unwind" when a panic leaves the function
classify(res, f, x) ==
    LET caught == run_catch_panic(closure_call(f, x))
    IN  IF caught.tag = "unwind"
        THEN [next |-> "unwind", panic |-> caught.panic, result |-> res, outcome |-> "none"]
        ELSE IF caught.tag = "Err"
        THEN [next |-> "loop", panic |-> NoPanic,
              result |-> add_failed(res, PanicRecord(x, caught.msg)), outcome |-> "caught"]
        ELSE LET o == relation_result(caught.value)
             IN  IF o.panic # NoPanic
                 THEN [next |-> "unwind", panic |-> o.panic, result |-> res, outcome |-> "none"]
                 ELSE IF o.passed
                 THEN [next |-> "loop", panic |-> NoPanic,
                       result |-> add_success(res), outcome |-> "passed"]
                 ELSE [next |-> "loop", panic |-> NoPanic,
                       result |-> add_failed(res, PropertyRecord(x, o.element)),
                       outcome |-> "failed"]

\* run(), once the body has returned: the lines printed, and the counts the
\* fatal panic carries (None when run() returns)
run_report(tr) ==
    CASE to_status(tr) = "Passed" ->
            [printed |-> <<[line |-> "Passed", nb_tests |-> tr.nb_tests]>>, fatal |-> None]
      [] to_status(tr) = "Skipped" ->
            [printed |-> <<>>, fatal |-> None]
      [] OTHER ->
            [printed |-> [i \in 1..Len(tr.failures) |->
                             [line |-> "# Failure", index |-> i - 1,
                              failure |-> tr.failures[i]]],
             fatal |-> [nb_failed |-> tr.nb_failed, nb_tests |-> tr.nb_tests]]

(***************************************************************************)
(* The idle values of each group of variables.                             *)
(***************************************************************************)

IdleHarness ==
    /\ ctx = None /\ no_catch_panic = FALSE /\ pc = "idle" /\ ensure = None
    /\ r = None /\ test_rng = None /\ iter = 0 /\ result = None /\ input = None
    /\ panic = NoPanic /\ returned = None /\ ensures_run = 0 /\ last = None
    /\ report = None
IdleResults == trs = None /\ trop = None
IdleRand ==
    /\ clock = 0 /\ srcA = None /\ srcB = None /\ script = <<>> /\ replayed = 0
IdleNum == nstream = None /\ ncall = None /\ ncalls = 0
IdleGen == gstream = None /\ gsteps = 0 /\ gcall = None /\ built = None
IdleOnce ==
    /\ status = None /\ content = None /\ tpc = None /\ tstatus = None
    /\ tvalue = None /\ loads = None /\ got = None /\ f_runs = <<>>
IdleSeed == seed_in = None /\ text = None /\ parsed = None
IdleProp == property = None /\ outcome = None
IdleSub == parent = None /\ parent_steps = 0 /\ children = None
IdleHook == hook = None /\ hook_before = None /\ rpc = None /\ seen = None
IdleMore == IdleSeed /\ IdleProp /\ IdleSub /\ IdleHook

(***************************************************************************)
(* Spec: the harness.  run() has made the Context and runs the body, which *)
(* calls Ensure::run some times.                                           *)
(***************************************************************************)

\* bounds of the harness model
MaxTests == 2
MaxEnsures == 2
MaxDuration == 1

Seeds == { [k \in 1..16 |-> 0],
           <<6, 7, 8, 9, 20, 36, 65, 18, 4, 3, 2, 1, 0, 0, 0, 16>> }

\* the seeds of a Context: those, and one under which the first u8 input is 255
ContextSeeds ==
    Seeds \cup {<<151, 103, 50, 161, 192, 152, 81, 5, 168, 21, 49, 104, 21, 23, 166, 184>>}

\* the Ensure values the body runs: forall(generator).ensure(closure)
Ensures ==
    { [generator |-> num("u8"), property_closure |-> "equal_x_x"],
      [generator |-> num("u8"), property_closure |-> "equal_x_x1"],
      [generator |-> num("u8"), property_closure |-> "less_x_128"],
      [generator |-> num("u8"), property_closure |-> "panic_any_odd"],
      [generator |-> num("u8"), property_closure |-> "equal_loud"],
      [generator |-> range(20, 40), property_closure |-> "assert_lt_30"],
      [generator |-> such_that(num("u8"), "odd"), property_closure |-> "less_x_128"],
      [generator |-> such_that(constant(4), "odd"), property_closure |-> "equal_x_x"],
      [generator |-> such_that(range(40, 20), "odd"), property_closure |-> "equal_x_x"] }

InitHarness ==
    /\ ctx \in [seed : ContextSeeds, nb_tests : 0..MaxTests, test_results : {TestResults_new}]
    /\ no_catch_panic \in BOOLEAN
    /\ pc = "body"
    /\ ensure = None
    /\ r = None
    /\ test_rng = None
    /\ iter = 0
    /\ result = None
    /\ input = None
    /\ panic = NoPanic
    /\ returned = None
    /\ ensures_run = 0
    /\ last = None
    /\ report = None

\* a step of the harness leaves the other groups alone
HarnessFrame ==
    UNCHANGED <<overflow_checks, resultsVars, randVars, numVars, genVars, onceVars,
               seedVars, propVars, subVars, hookVars>>

\* a panic leaves Ensure::test, Testable::run, the body and run()
Unwind(p) ==
    /\ pc' = "aborted"
    /\ panic' = p

\* the body calls Ensure::run: Ensure::test up to its loop
StartEnsure(e) ==
    /\ pc = "body"
    /\ ensures_run < MaxEnsures
    /\ ensures_run' = ensures_run + 1
    /\ ensure' = e
    /\ r' = test_stream(ctx)
    /\ result' = TestResults_new
    /\ iter' = 0
    /\ pc' = "test"
    /\ test_rng' = None
    /\ input' = None
    /\ last' = None
    /\ returned' = None
    /\ UNCHANGED <<ctx, no_catch_panic, panic, report>>
    /\ HarnessFrame

\* an iteration up to the closure: derive test_rng and generate the input
BeginIteration ==
    /\ pc = "test"
    /\ iter < ctx.nb_tests
    /\ \E st \in {iteration_streams(r)} :
          /\ r' = st.r
          /\ test_rng' = st.test_rng
          /\ \E x \in {gen(ensure.generator, st.test_rng)} :
                /\ input' = x
                /\ IF x.ok
                   THEN /\ pc' = "eval"
                        /\ UNCHANGED <<panic, last>>
                   ELSE /\ Unwind(x.panic)
                        /\ last' = [iter |-> iter, outcome |-> "no input",
                                     closure_panic |-> NoPanic]
    /\ UNCHANGED <<ctx, no_catch_panic, ensure, iter, result, returned, ensures_run, report>>
    /\ HarnessFrame

\* the rest of the iteration: the closure, the property's result, the record
Evaluate ==
    /\ pc = "eval"
    /\ \E c \in {classify(result, ensure.property_closure, input.value)} :
          /\ result' = c.result
          /\ last' = [iter |-> iter, outcome |-> c.outcome,
                       closure_panic |-> closure_call(ensure.property_closure, input.value).panic]
          /\ IF c.next = "unwind"
             THEN /\ Unwind(c.panic)
                  /\ UNCHANGED iter
             ELSE /\ pc' = "test"
                  /\ iter' = iter + 1
                  /\ UNCHANGED panic
    /\ UNCHANGED <<ctx, no_catch_panic, ensure, r, test_rng, input, returned, ensures_run, report>>
    /\ HarnessFrame

\* the loop is over: Ensure::test returns its result, its locals go, and
\* Testable::run merges the result into the Context
FinishEnsure ==
    /\ pc = "test"
    /\ iter = ctx.nb_tests
    /\ \E d \in 0..MaxDuration :
          /\ returned' = set_duration(result, d)
          /\ ctx' = [ctx EXCEPT !.test_results = add_subtests(@, set_duration(result, d))]
    /\ pc' = "body"
    /\ r' = None
    /\ test_rng' = None
    /\ result' = None
    /\ input' = None
    /\ UNCHANGED <<no_catch_panic, ensure, iter, panic, ensures_run, last, report>>
    /\ HarnessFrame

\* the body returns and run() reports: `match tr.to_status()`
BodyReturns ==
    /\ pc = "body"
    /\ \E rep \in {run_report(ctx.test_results)} :
          /\ report' = rep
          /\ pc' = IF rep.fatal = None THEN "returned" ELSE "fatal"
    /\ UNCHANGED <<ctx, no_catch_panic, ensure, r, test_rng, iter, result, input,
                   panic, returned, ensures_run, last>>
    /\ HarnessFrame

Init ==
    /\ overflow_checks \in BOOLEAN
    /\ InitHarness
    /\ IdleResults /\ IdleRand /\ IdleNum /\ IdleGen /\ IdleOnce /\ IdleMore

Next ==
    \/ \E e \in Ensures : StartEnsure(e)
    \/ BeginIteration
    \/ Evaluate
    \/ FinishEnsure
    \/ BodyReturns

Spec == Init /\ [][Next]_vars

(***************************************************************************)
(* SpecResults: two TestResults values under any sequence of add_success,  *)
(* add_failed and add_subtests.                                            *)
(***************************************************************************)

\* bound: the tests a TestResults counts
MaxCount == 3

Reasons == {"input: 1", "input: 2"}

InitResults ==
    /\ overflow_checks = TRUE
    /\ trs = <<TestResults_new, TestResults_new>>
    /\ trop = None
    /\ IdleHarness /\ IdleRand /\ IdleNum /\ IdleGen /\ IdleOnce /\ IdleMore

ResultsFrame ==
    UNCHANGED <<overflow_checks, harnessVars, randVars, numVars, genVars, onceVars,
               seedVars, propVars, subVars, hookVars>>

TrAddSuccess(i) ==
    /\ trs[i].nb_tests < MaxCount
    /\ trs' = [trs EXCEPT ![i] = add_success(@)]
    /\ trop' = [op |-> "add_success", on |-> i]
    /\ ResultsFrame

TrAddFailed(i, reason) ==
    /\ trs[i].nb_tests < MaxCount
    /\ trs' = [trs EXCEPT ![i] = add_failed(@, reason)]
    /\ trop' = [op |-> "add_failed", on |-> i]
    /\ ResultsFrame

TrAddSubtests(i, j) ==
    /\ i # j
    /\ trs[i].nb_tests + trs[j].nb_tests <= MaxCount
    /\ trs' = [trs EXCEPT ![i] = add_subtests(@, trs[j])]
    /\ trop' = [op |-> "add_subtests", on |-> i]
    /\ ResultsFrame

NextResults ==
    \/ \E i \in 1..2 : TrAddSuccess(i)
    \/ \E i \in 1..2, reason \in Reasons : TrAddFailed(i, reason)
    \/ \E i \in 1..2, j \in 1..2 : TrAddSubtests(i, j)

SpecResults == InitResults /\ [][NextResults]_vars

(***************************************************************************)
(* SpecRand: two sources made from one seed and driven by one script of    *)
(* operations, at different times.                                         *)
(***************************************************************************)

\* bounds: the operations of a script, the ticks of the clock
MaxOps == 4
MaxClock == 1

\* the operations: from_seed, next and sub on the source, next and sub on
\* its k-th child
Ops ==
    {[op |-> "from_seed", seed |-> sd, k |-> 0] : sd \in Seeds}
    \cup {[op |-> o, seed |-> <<>>, k |-> 0] : o \in {"next", "sub"}}
    \cup {[op |-> o, seed |-> <<>>, k |-> k] : o \in {"kid_next", "kid_sub"}, k \in 1..MaxOps}

\* the operation can be made on the source: it exists, and so does the child
Applies(src, o) ==
    IF src = None THEN o.op = "from_seed"
    ELSE o.op # "from_seed" /\ o.k <= Len(src.kids)

\* a source, its children and the outputs drawn, after the operation
Apply(src, o) ==
    CASE o.op = "from_seed" -> [root |-> from_seed(o.seed), kids |-> <<>>, outs |-> <<>>]
      [] o.op = "next" ->
            [src EXCEPT !.root = next_state(@), !.outs = Append(@, next_output(src.root))]
      [] o.op = "sub" ->
            [src EXCEPT !.root = next_state(@), !.kids = Append(@, sub_child(src.root))]
      [] o.op = "kid_next" ->
            [src EXCEPT !.kids[o.k] = next_state(@),
                        !.outs = Append(@, next_output(src.kids[o.k]))]
      [] OTHER ->
            [src EXCEPT !.kids[o.k] = next_state(@),
                        !.kids = Append(@, sub_child(src.kids[o.k]))]

InitRand ==
    /\ overflow_checks = TRUE
    /\ clock = 0
    /\ srcA = None
    /\ srcB = None
    /\ script = <<>>
    /\ replayed = 0
    /\ IdleHarness /\ IdleResults /\ IdleNum /\ IdleGen /\ IdleOnce /\ IdleMore

RandFrame ==
    UNCHANGED <<overflow_checks, harnessVars, resultsVars, numVars, genVars, onceVars,
               seedVars, propVars, subVars, hookVars>>

\* time passes
Tick ==
    /\ clock < MaxClock
    /\ clock' = clock + 1
    /\ UNCHANGED <<srcA, srcB, script, replayed>>
    /\ RandFrame

\* the next operation on the first source
DriveA(o) ==
    /\ Len(script) < MaxOps
    /\ Applies(srcA, o)
    /\ \E a \in {Apply(srcA, o)} : srcA' = a
    /\ script' = Append(script, o)
    /\ UNCHANGED <<clock, srcB, replayed>>
    /\ RandFrame

\* the second source follows the script
ReplayB ==
    /\ replayed < Len(script)
    /\ \E b \in {Apply(srcB, script[replayed + 1])} : srcB' = b
    /\ replayed' = replayed + 1
    /\ UNCHANGED <<clock, srcA, script>>
    /\ RandFrame

NextRand ==
    \/ Tick
    \/ \E o \in Ops : DriveA(o)
    \/ ReplayB

SpecRand == InitRand /\ [][NextRand]_vars

(***************************************************************************)
(* SpecNum: num_range calls on a source.                                   *)
(***************************************************************************)

\* bound: the calls made on the source
MaxNumCalls == 2

\* the calls: a type and bounds min <= max of the type, among them
\* min = max, the full domain and signed ranges across 0
NumRangeCalls ==
    {[ty |-> "u8", min |-> a, max |-> b] :
        a \in {0, 1, 20, 255}, b \in {0, 1, 40, 254, 255}}
    \cup {[ty |-> "i8", min |-> a, max |-> b] :
        a \in {-128, -5, -1, 0, 3}, b \in {-128, -2, 0, 1, 127}}
    \cup {[ty |-> "NonZeroU8", min |-> a, max |-> b] :
        a \in {1, 2, 255}, b \in {1, 7, 255}}

InitNum ==
    /\ overflow_checks \in BOOLEAN
    /\ nstream \in {from_seed(sd) : sd \in Seeds}
    /\ ncall = None
    /\ ncalls = 0
    /\ IdleHarness /\ IdleResults /\ IdleRand /\ IdleGen /\ IdleOnce /\ IdleMore

\* r.num_range(min, max)
NumRange(c) ==
    /\ ncalls < MaxNumCalls
    /\ c.min <= c.max
    /\ \E x \in {num_range(c.ty, nstream, c.min, c.max)} :
          /\ ncall' = [ty |-> c.ty, min |-> c.min, max |-> c.max, out |-> x]
          /\ nstream' = x.r
    /\ ncalls' = ncalls + 1
    /\ UNCHANGED <<overflow_checks, harnessVars, resultsVars, randVars, genVars, onceVars,
                   seedVars, propVars, subVars, hookVars>>

NextNum == \E c \in NumRangeCalls : NumRange(c)

SpecNum == InitNum /\ [][NextNum]_vars

(***************************************************************************)
(* SpecGen: one gen call of a generator on a source that was drawn from    *)
(* before.                                                                 *)
(***************************************************************************)

\* bound: the draws made on the source before the call
MaxWalk == 2

\* the components of the composites; they consume 0, 1, 2 or a varying
\* number of draws of their sub-stream, and the last one aborts
Components ==
    {constant(5), num("u8"), num("u64"), such_that(num("u8"), "lt16"), range(40, 20)}

Generators ==
    Components
    \cup {and(a, b) : a \in Components, b \in Components}
    \cup {tuple(<<a, num("u8"), c>>) : a \in Components, c \in Components}
    \cup {such_that(b, f) : b \in {constant(4), num("u8"), range(20, 40), range(40, 20)},
                            f \in {"odd", "lt16", "never"}}

InitGen ==
    /\ overflow_checks = TRUE
    /\ gstream \in {from_seed(sd) : sd \in Seeds}
    /\ gsteps = 0
    /\ gcall = None
    /\ built = None
    /\ IdleHarness /\ IdleResults /\ IdleRand /\ IdleNum /\ IdleOnce /\ IdleMore

GenFrame ==
    UNCHANGED <<overflow_checks, harnessVars, resultsVars, randVars, numVars, onceVars,
               seedVars, propVars, subVars, hookVars>>

\* r.next()
GenDraw ==
    /\ gcall = None
    /\ gsteps < MaxWalk
    /\ gstream' = next_state(gstream)
    /\ gsteps' = gsteps + 1
    /\ UNCHANGED <<gcall, built>>
    /\ GenFrame

\* g.gen(&mut r)
GenCall(g) ==
    /\ gcall = None
    /\ \E x \in {gen(g, gstream)} :
          /\ gcall' = [g |-> g, before |-> gstream, out |-> x]
          /\ gstream' = x.r
    /\ UNCHANGED <<gsteps, built>>
    /\ GenFrame

NextGen ==
    \/ GenDraw
    \/ \E g \in Generators : GenCall(g)

SpecGen == InitGen /\ [][NextGen]_vars

(***************************************************************************)
(* SpecBuild: a generator is constructed by one_of, frequency, range, or    *)
(* or choose, the source is drawn from, and the generator is sampled once. *)
(***************************************************************************)

\* bound: the draws made on the source before the sample
MaxDraws == 7

\* the arguments of frequency: weights (3,7), a weight 0, one generator,
\* none, only the weight 0, and a generator that retries on its sub-stream
WeightedLists ==
    { <<[weight |-> 3, gen |-> constant(1)], [weight |-> 7, gen |-> num("u8")]>>,
      <<[weight |-> 0, gen |-> constant(1)], [weight |-> 2, gen |-> constant(2)],
        [weight |-> 1, gen |-> num("u8")]>>,
      <<[weight |-> 1, gen |-> range(20, 40)]>>,
      <<>>,
      <<[weight |-> 0, gen |-> constant(1)]>>,
      <<[weight |-> 1, gen |-> constant(1)],
        [weight |-> 2, gen |-> such_that(num("u8"), "lt16")]>> }

\* the arguments of range, start..end: two values, one value, the harness's
\* range, a reversed one, the top of the domain, and the whole domain
Ranges ==
    {[start |-> 3, end |-> 4], [start |-> 5, end |-> 5], [start |-> 20, end |-> 40],
     [start |-> 40, end |-> 20], [start |-> 254, end |-> 255], [start |-> 0, end |-> 255]}

\* the u64 1
One64 == <<1, 0, 0, 0, 0, 0, 0, 0>>

\* the pairs a.or(b): the sides consume 0, 1, 2 or a varying number of draws
\* of their sub-stream, and one side aborts
Alternatives ==
    { <<constant(One64), num("u64")>>,
      <<num("u8"), such_that(num("u8"), "lt16")>>,
      <<range(40, 20), num("u8")>> }

\* the arguments of choose
Choices ==
    { <<constant(1), num("u8"), such_that(num("u8"), "lt16")>>,
      <<num("u64")>>,
      <<range(40, 20), constant(2)>>,
      <<>> }

\* the calls of the constructors
Constructions ==
    {[fn |-> "one_of", arg |-> sl, out |-> one_of(sl)] : sl \in {<<>>, <<7>>, <<3, 5, 9>>}}
    \cup {[fn |-> "frequency", arg |-> gs, out |-> frequency(gs)] : gs \in WeightedLists}
    \cup {[fn |-> "range", arg |-> rg, out |-> Constructed(range(rg.start, rg.end))] :
              rg \in Ranges}
    \cup {[fn |-> "or", arg |-> ab, out |-> Constructed(or(ab[1], ab[2]))] : ab \in Alternatives}
    \cup {[fn |-> "choose", arg |-> gs, out |-> choose(gs)] : gs \in Choices}

InitBuild ==
    /\ overflow_checks \in BOOLEAN
    /\ gstream \in {from_seed(sd) : sd \in Seeds}
    /\ gsteps = 0
    /\ gcall = None
    /\ built = None
    /\ IdleHarness /\ IdleResults /\ IdleRand /\ IdleNum /\ IdleOnce /\ IdleMore

\* the constructor is called
Construct(c) ==
    /\ built = None
    /\ built' = c
    /\ UNCHANGED <<gstream, gsteps, gcall>>
    /\ GenFrame

\* r.next()
BuildDraw ==
    /\ gcall = None
    /\ gsteps < MaxDraws
    /\ gstream' = next_state(gstream)
    /\ gsteps' = gsteps + 1
    /\ UNCHANGED <<gcall, built>>
    /\ GenFrame

\* the constructor returned a generator g: g.gen(&mut r)
Sample ==
    /\ built # None
    /\ built.out.ok
    /\ gcall = None
    /\ \E x \in {gen(built.out.generator, gstream)} :
          /\ gcall' = [g |-> built.out.generator, before |-> gstream, out |-> x]
          /\ gstream' = x.r
    /\ UNCHANGED <<gsteps, built>>
    /\ GenFrame

NextBuild ==
    \/ \E c \in Constructions : Construct(c)
    \/ BuildDraw
    \/ Sample

SpecBuild == InitBuild /\ [][NextBuild]_vars

(***************************************************************************)
(* SpecInitOnce: threads calling load() on one InitOnce, initonce.rs.  A   *)
(* thread takes one step of load() at a time.                              *)
(***************************************************************************)

\* bounds: the threads, and the load() calls of each
MaxThreads == 3
MaxLoads == 2

STATUS_UNINIT == 0
STATUS_INITING == 1
STATUS_DONE == 2

Threads == 1..MaxThreads

\* a compare-and-swap that returns what it saw and stores nothing
compare_and_swap_load_only(current, expected, new) ==
    [previous |-> current, stored |-> current]

\* AtomicUsize::compare_and_swap: what it returns and what the atomic holds
compare_and_swap(current, expected, new) ==
    [previous |-> current, stored |-> IF current = expected THEN new ELSE current]

\* the FnOnce given to load() by a thread: Seed::generate on that thread
f(t) == generate(clock, t)

\* MaybeUninit::uninit(), and a local not yet assigned (a local `status` not
\* yet assigned is -1, no status)
Uninit == <<>>

\* InitOnce::init() and no thread in load()
InitInitOnce ==
    /\ overflow_checks = TRUE
    /\ status = STATUS_UNINIT
    /\ content = Uninit
    /\ tpc = [t \in Threads |-> "idle"]
    /\ tstatus = [t \in Threads |-> -1]
    /\ tvalue = [t \in Threads |-> Uninit]
    /\ loads = [t \in Threads |-> 0]
    /\ got = [t \in Threads |-> Uninit]
    /\ f_runs = <<>>
    /\ IdleHarness /\ IdleResults /\ IdleRand /\ IdleNum /\ IdleGen /\ IdleMore

OnceFrame ==
    UNCHANGED <<overflow_checks, harnessVars, resultsVars, randVars, numVars, genVars,
               seedVars, propVars, subVars, hookVars>>

\* load(): let status = self.status.compare_and_swap(UNINIT, INITING, SeqCst)
LoadCas(t) ==
    /\ tpc[t] = "idle"
    /\ loads[t] < MaxLoads
    /\ \E cas \in {compare_and_swap(status, STATUS_UNINIT, STATUS_INITING)} :
          /\ status' = cas.stored
          /\ tstatus' = [tstatus EXCEPT ![t] = cas.previous]
          /\ tpc' = [tpc EXCEPT ![t] =
                        IF cas.previous = STATUS_UNINIT THEN "call"
                        ELSE IF cas.previous = STATUS_INITING THEN "wait"
                        ELSE "read"]
    /\ UNCHANGED <<content, tvalue, loads, got, f_runs>>
    /\ OnceFrame

\* let value = f()
CallF(t) ==
    /\ tpc[t] = "call"
    /\ tvalue' = [tvalue EXCEPT ![t] = f(t)]
    /\ f_runs' = Append(f_runs, [thread |-> t, observed |-> tstatus[t]])
    /\ tpc' = [tpc EXCEPT ![t] = "write"]
    /\ UNCHANGED <<status, content, tstatus, loads, got>>
    /\ OnceFrame

\* cp_ref.as_mut_ptr().write(value)
WriteCell(t) ==
    /\ tpc[t] = "write"
    /\ content' = tvalue[t]
    /\ tpc' = [tpc EXCEPT ![t] = "store"]
    /\ UNCHANGED <<status, tstatus, tvalue, loads, got, f_runs>>
    /\ OnceFrame

\* self.status.store(STATUS_DONE, SeqCst)
StoreDone(t) ==
    /\ tpc[t] = "store"
    /\ status' = STATUS_DONE
    /\ tpc' = [tpc EXCEPT ![t] = "read"]
    /\ UNCHANGED <<content, tstatus, tvalue, loads, got, f_runs>>
    /\ OnceFrame

\* a wait that gives up after one look at the status
SpinOnce(t) ==
    /\ tpc[t] = "wait"
    /\ tpc' = [tpc EXCEPT ![t] = "read"]
    /\ UNCHANGED <<status, content, tstatus, tvalue, loads, got, f_runs>>
    /\ OnceFrame

\* a wait that does not look at the status
SpinBlind(t) ==
    /\ tpc[t] = "wait"
    /\ UNCHANGED <<tpc, status, content, tstatus, tvalue, loads, got, f_runs>>
    /\ OnceFrame

\* while self.status.load(SeqCst) != STATUS_DONE { spin_loop_hint() }
Spin(t) ==
    /\ tpc[t] = "wait"
    /\ tpc' = [tpc EXCEPT ![t] = IF status = STATUS_DONE THEN "read" ELSE "wait"]
    /\ UNCHANGED <<status, content, tstatus, tvalue, loads, got, f_runs>>
    /\ OnceFrame

\* read the cell and return; a cell never written reads as any value
ReadCell(t) ==
    /\ tpc[t] = "read"
    /\ \E v \in (IF content = Uninit THEN Seeds ELSE {content}) :
          got' = [got EXCEPT ![t] = v]
    /\ loads' = [loads EXCEPT ![t] = @ + 1]
    /\ tpc' = [tpc EXCEPT ![t] = "idle"]
    /\ UNCHANGED <<status, content, tstatus, tvalue, f_runs>>
    /\ OnceFrame

NextInitOnce ==
    \/ \E t \in Threads : LoadCas(t)
    \/ \E t \in Threads : CallF(t)
    \/ \E t \in Threads : WriteCell(t)
    \/ \E t \in Threads : StoreDone(t)
    \/ \E t \in Threads : Spin(t)
    \/ \E t \in Threads : ReadCell(t)

SpecInitOnce == InitInitOnce /\ [][NextInitOnce]_vars

\* an abort of f that puts the status back to Uninitialized
FAbortsRollingBack(t) ==
    /\ tpc[t] = "call"
    /\ f_runs' = Append(f_runs, [thread |-> t, observed |-> tstatus[t], aborted |-> TRUE])
    /\ tpc' = [tpc EXCEPT ![t] = "idle"]
    /\ status' = STATUS_UNINIT
    /\ UNCHANGED <<content, tstatus, tvalue, loads, got>>
    /\ OnceFrame

\* let value = f(), where f panics: the panic unwinds through load(), which
\* has no guard on the way, and the thread is out of load() with nothing
\* returned
FAborts(t) ==
    /\ tpc[t] = "call"
    /\ f_runs' = Append(f_runs, [thread |-> t, observed |-> tstatus[t], aborted |-> TRUE])
    /\ tpc' = [tpc EXCEPT ![t] = "idle"]
    /\ UNCHANGED <<status, content, tstatus, tvalue, loads, got>>
    /\ OnceFrame

NextInitOnceAbort ==
    \/ \E t \in Threads : LoadCas(t)
    \/ \E t \in Threads : CallF(t)
    \/ \E t \in Threads : FAborts(t)
    \/ \E t \in Threads : WriteCell(t)
    \/ \E t \in Threads : StoreDone(t)
    \/ \E t \in Threads : Spin(t)
    \/ \E t \in Threads : ReadCell(t)

\* load() with an initializer that may abort
SpecInitOnceAbort == InitInitOnce /\ [][NextInitOnceAbort]_vars

\* a thread inside load() keeps being scheduled, and f returns; whether a
\* thread calls load() at all is left open.  Every step inside load() that
\* is not a turn of the wait loop changes tpc
InLoad(t) == CallF(t) \/ WriteCell(t) \/ StoreDone(t) \/ Spin(t) \/ ReadCell(t)

SpecInitOnceFair ==
    InitInitOnce /\ [][NextInitOnce]_vars /\ \A t \in Threads : WF_tpc(InLoad(t))

(***************************************************************************)
(* SpecSeed: a Seed is written as text and the text is parsed, or a text   *)
(* from outside (SMOKE_SEED) is parsed.                                    *)
(***************************************************************************)

\* bound: the groups of a text that has not four of them
MaxGroups == 5

\* 32-bit words, least significant byte first
Words == {<<0, 0, 0, 0>>, <<255, 255, 255, 255>>, <<0, 0, 0, 16>>, <<4, 3, 2, 1>>,
          <<239, 205, 171, 9>>}

SeedValues == {a \o b \o c \o d : a \in Words, b \in Words, c \in Words, d \in Words}

Repeat(c, n) == [i \in 1..n |-> c]

\* groups: two of the canonical form, then a short one, lower case, a sign,
\* an empty one, a letter that is no digit, nine digits that fit, nine that
\* do not, and a space
GroupTexts ==
    { Repeat("0", 8), <<"1", "0", "A", "B", "C", "D", "E", "F">>,
      <<"1">>, Repeat("0", 7) \o <<"a">>, <<"+">> \o Repeat("0", 6) \o <<"1">>,
      <<>>, Repeat("0", 7) \o <<"G">>, Repeat("0", 8) \o <<"1">>,
      <<"1">> \o Repeat("0", 8), <<" ">> \o Repeat("0", 7) }

RECURSIVE Join(_)
Join(gs) ==
    IF Len(gs) = 0 THEN <<>>
    ELSE IF Len(gs) = 1 THEN gs[1]
    ELSE gs[1] \o <<"-">> \o Join(Tail(gs))

\* the texts given from outside: four groups of any kind, or another number
\* of canonical groups
Texts ==
    {Join(gs) : gs \in [1..4 -> GroupTexts]}
    \cup UNION {{Join(gs) : gs \in [1..n -> {Repeat("0", 8), Repeat("F", 8)}]} :
                    n \in (0..MaxGroups) \ {4}}

InitSeed ==
    /\ overflow_checks = TRUE
    /\ \/ seed_in \in SeedValues /\ text = None
       \/ seed_in = None /\ text \in Texts
    /\ parsed = None
    /\ IdleHarness /\ IdleResults /\ IdleRand /\ IdleNum /\ IdleGen /\ IdleOnce
    /\ IdleProp /\ IdleSub /\ IdleHook

SeedFrame ==
    UNCHANGED <<overflow_checks, harnessVars, resultsVars, randVars, numVars, genVars,
                onceVars, propVars, subVars, hookVars>>

\* seed.to_string()
WriteSeed ==
    /\ seed_in # None
    /\ text = None
    /\ text' = to_string(seed_in)
    /\ UNCHANGED <<seed_in, parsed>>
    /\ SeedFrame

\* Seed::from_str(&text)
ParseText ==
    /\ text # None
    /\ parsed = None
    /\ parsed' = from_str(text)
    /\ UNCHANGED <<seed_in, text>>
    /\ SeedFrame

NextSeed == WriteSeed \/ ParseText

SpecSeed == InitSeed /\ [][NextSeed]_vars

(***************************************************************************)
(* SpecProp: a property is built from relations with and / or, and its     *)
(* result is taken.                                                        *)
(***************************************************************************)

\* bound: the depth of a property, a relation having depth 1
MaxPropDepth == 3

RECURSIVE PropDepth(_)
PropDepth(p) ==
    IF IsRelation(p) THEN 1
    ELSE 1 + (IF PropDepth(p.prop_a) >= PropDepth(p.prop_b)
              THEN PropDepth(p.prop_a) ELSE PropDepth(p.prop_b))

\* relations: two that pass, two that fail
Relations == {equal(1, 1), less(2, 3), equal(1, 2), less(3, 2)}

\* the properties given as the other operand
Operands ==
    Relations \cup {Property_and(equal(1, 2), less(2, 3)), Property_or(less(3, 2), equal(1, 2))}

InitProp ==
    /\ overflow_checks = TRUE
    /\ property \in Relations
    /\ outcome = None
    /\ IdleHarness /\ IdleResults /\ IdleRand /\ IdleNum /\ IdleGen /\ IdleOnce
    /\ IdleSeed /\ IdleSub /\ IdleHook

PropFrame ==
    UNCHANGED <<overflow_checks, harnessVars, resultsVars, randVars, numVars, genVars,
                onceVars, seedVars, subVars, hookVars>>

\* p.and(other), other.and(p)
AndWith(other, side) ==
    /\ outcome = None
    /\ PropDepth(property) < MaxPropDepth
    /\ property' = IF side = "left" THEN Property_and(property, other)
                   ELSE Property_and(other, property)
    /\ UNCHANGED outcome
    /\ PropFrame

\* p.or(other), other.or(p)
OrWith(other, side) ==
    /\ outcome = None
    /\ PropDepth(property) < MaxPropDepth
    /\ property' = IF side = "left" THEN Property_or(property, other)
                   ELSE Property_or(other, property)
    /\ UNCHANGED outcome
    /\ PropFrame

\* p.result()
TakeResult ==
    /\ outcome = None
    /\ outcome' = Property_result(property)
    /\ UNCHANGED property
    /\ PropFrame

NextProp ==
    \/ \E other \in Operands, side \in {"left", "right"} : AndWith(other, side)
    \/ \E other \in Operands, side \in {"left", "right"} : OrWith(other, side)
    \/ TakeResult

SpecProp == InitProp /\ [][NextProp]_vars

(***************************************************************************)
(* SpecSub: a source made from a seed is drawn from and derived from, and  *)
(* then two children are taken from it by two consecutive sub() calls.     *)
(***************************************************************************)

\* bounds: the next() and sub() calls on the parent before the two children,
\* and the draws made on the children
MaxParentSteps == 4
MaxChildDraws == 2

\* the seeds: those of the harness, small ones, one with all bits set
ParentSeeds ==
    Seeds \cup { [k \in 1..16 |-> IF k = 1 THEN 1 ELSE 0],
                 [k \in 1..16 |-> IF k = 9 THEN 1 ELSE 0],
                 [k \in 1..16 |-> IF k = 16 THEN 128 ELSE 0],
                 [k \in 1..16 |-> 255],
                 <<239, 205, 171, 137, 103, 69, 35, 1, 16, 50, 84, 118, 152, 186, 220, 254>> }

InitSub ==
    /\ overflow_checks = TRUE
    /\ parent \in {from_seed(sd) : sd \in ParentSeeds}
    /\ parent_steps = 0
    /\ children = None
    /\ IdleHarness /\ IdleResults /\ IdleRand /\ IdleNum /\ IdleGen /\ IdleOnce
    /\ IdleSeed /\ IdleProp /\ IdleHook

SubFrame ==
    UNCHANGED <<overflow_checks, harnessVars, resultsVars, randVars, numVars, genVars,
                onceVars, seedVars, propVars, hookVars>>

\* parent.next()
ParentNext ==
    /\ children = None
    /\ parent_steps < MaxParentSteps
    /\ parent' = next_state(parent)
    /\ parent_steps' = parent_steps + 1
    /\ UNCHANGED children
    /\ SubFrame

\* parent.sub(), the child then being the source
Descend ==
    /\ children = None
    /\ parent_steps < MaxParentSteps
    /\ parent' = sub_child(parent)
    /\ parent_steps' = parent_steps + 1
    /\ UNCHANGED children
    /\ SubFrame

\* let a = parent.sub(); let b = parent.sub();
SubTwice ==
    /\ children = None
    /\ children' = [before |-> parent,
                    a |-> sub_child(parent),
                    b |-> sub_child(next_state(parent)),
                    a_now |-> sub_child(parent),
                    b_now |-> sub_child(next_state(parent)),
                    draws |-> 0]
    /\ parent' = next_state(next_state(parent))
    /\ UNCHANGED parent_steps
    /\ SubFrame

\* a.next() or b.next(): R is a pair of u64 held by value, so the call
\* writes the words of that child only
ChildNext(c) ==
    /\ children # None
    /\ children.draws < MaxChildDraws
    /\ children' = IF c = "a"
                   THEN [children EXCEPT !.a_now = next_state(@), !.draws = @ + 1]
                   ELSE [children EXCEPT !.b_now = next_state(@), !.draws = @ + 1]
    /\ UNCHANGED <<parent, parent_steps>>
    /\ SubFrame

NextSub ==
    \/ ParentNext
    \/ Descend
    \/ SubTwice
    \/ \E c \in {"a", "b"} : ChildNext(c)

SpecSub == InitSub /\ [][NextSub]_vars

(***************************************************************************)
(* SpecHook: threads calling run(), seen from the panic hook, which is one *)
(* per process.  A hook is named: the default one of the standard library, *)
(* one the program registered itself, or dont_print_panic of run().        *)
(***************************************************************************)

\* bound: the threads that call run()
MaxRuns == 2

Runners == 1..MaxRuns

\* std::panic::set_hook: the hook given replaces the registered one, which
\* is dropped
set_hook(registered, given) == given

\* std::panic::take_hook: the registered hook is returned and the default
\* one is registered in its place
take_hook(registered) == [taken |-> registered, registered |-> "default"]

InitHook ==
    /\ overflow_checks = TRUE
    /\ hook \in {"default", "custom"}
    /\ hook_before = hook
    /\ rpc = [t \in Runners |-> "start"]
    /\ seen = [t \in Runners |-> {}]
    /\ IdleHarness /\ IdleResults /\ IdleRand /\ IdleNum /\ IdleGen /\ IdleOnce
    /\ IdleSeed /\ IdleProp /\ IdleSub

HookFrame ==
    UNCHANGED <<overflow_checks, harnessVars, resultsVars, randVars, numVars, genVars,
                onceVars, seedVars, propVars, subVars>>

\* run(): set_hook(Box::new(dont_print_panic)), then the body starts
RunSetsHook(t) ==
    /\ rpc[t] = "start"
    /\ hook' = set_hook(hook, "dont_print_panic")
    /\ rpc' = [rpc EXCEPT ![t] = "body"]
    /\ UNCHANGED <<hook_before, seen>>
    /\ HookFrame

\* a panic in the body that run_catch_panic catches: the registered hook is
\* invoked before the unwinding
BodyPanicCaught(t) ==
    /\ rpc[t] = "body"
    /\ seen' = [seen EXCEPT ![t] = @ \cup {hook}]
    /\ UNCHANGED <<hook, hook_before, rpc>>
    /\ HookFrame

\* a panic in the body that nothing catches unwinds through run()
BodyPanicUnwinds(t) ==
    /\ rpc[t] = "body"
    /\ seen' = [seen EXCEPT ![t] = @ \cup {hook}]
    /\ rpc' = [rpc EXCEPT ![t] = "unwound"]
    /\ UNCHANGED <<hook, hook_before>>
    /\ HookFrame

\* the body returned: let _ = take_hook(), then the report
RunTakesHook(t) ==
    /\ rpc[t] = "body"
    /\ hook' = take_hook(hook).registered
    /\ rpc' = [rpc EXCEPT ![t] = "returned"]
    /\ UNCHANGED <<hook_before, seen>>
    /\ HookFrame

NextHook ==
    \/ \E t \in Runners : RunSetsHook(t)
    \/ \E t \in Runners : BodyPanicCaught(t)
    \/ \E t \in Runners : BodyPanicUnwinds(t)
    \/ \E t \in Runners : RunTakesHook(t)

SpecHook == InitHook /\ [][NextHook]_vars

(***************************************************************************)
(* The claims on the harness, under Spec.                                  *)
(***************************************************************************)

\* the generation of the current iteration's input spent such_that's budget
GenerationExhausted ==
    /\ input # None
    /\ ~input.ok
    /\ input.panic = SuchThatRetryFailure

\* C1: when a such_that generator exhausts its retry budget while the input
\* of an iteration is generated (failure isolation on), the run is not
\* aborted and the iteration is recorded as one failed iteration whose
\* record carries the rejection-exhaustion message.
C1_ExhaustionIsRecorded ==
    (~no_catch_panic /\ GenerationExhausted) =>
        /\ pc # "aborted"
        /\ result.nb_failed = iter
        /\ result.failures[Len(result.failures)].message = "such that retry failure"

\* C2: when input generation succeeds every iteration is classified exactly
\* once: the counters add up to the iterations completed, a pass, a failed
\* outcome or (failure isolation on) a panic of the closure never stops the
\* loop, the panic being counted as a failure, and the TestResults returned
\* has nb_tests = N = nb_success + nb_failed.
C2_EveryIterationClassified ==
    /\ pc \in {"test", "eval"} =>
          /\ result.nb_tests = iter
          /\ result.nb_success + result.nb_failed = iter
          /\ Len(result.failures) = result.nb_failed
    /\ (last # None /\ last.outcome \in {"passed", "failed", "caught"}) => pc # "aborted"
    /\ (last # None /\ ~no_catch_panic /\ last.closure_panic # NoPanic) =>
          /\ last.outcome = "caught"
          /\ pc # "aborted"
    /\ returned # None =>
          /\ returned.nb_tests = ctx.nb_tests
          /\ returned.nb_success + returned.nb_failed = ctx.nb_tests

\* C2's case: a test of two iterations returned with a pass and a panic of
\* the closure counted as a failure
C2_Witness ==
    /\ returned # None
    /\ ~no_catch_panic
    /\ returned.nb_tests = 2
    /\ returned.nb_success = 1
    /\ returned.nb_failed = 1
    /\ returned.failures[1].kind = "panic"

\* the stream of iteration k under a seed: the k-th child of the seed's source
NthStream(seed, k) == sub_child(next_n(from_seed(seed), k))

\* C4: the input of iteration k is a function of (seed, generator, k) only:
\* it is what the generator makes of the k-th child of the seed's source,
\* whatever nb_tests is, whatever the earlier iterations consumed and
\* whatever Ensure ran before in the Context.
C4_InputIsFunctionOfSeedAndIndex ==
    (pc \in {"eval", "aborted"} /\ input # None) =>
        /\ test_rng = NthStream(ctx.seed, iter)
        /\ input = gen(ensure.generator, NthStream(ctx.seed, iter))

\* C4's case: the second iteration of the second Ensure of a Context, under
\* a generator that consumes a varying amount of its stream
C4_Witness ==
    /\ pc = "eval"
    /\ iter = 1
    /\ ensures_run = 2
    /\ ensure.generator.kind = "such_that"
    /\ input.drawn > 1

(***************************************************************************)
(* The claims on TestResults, under SpecResults.                           *)
(***************************************************************************)

CountersAgree(t) ==
    /\ Len(t.failures) = t.nb_failed
    /\ t.nb_tests = t.nb_success + t.nb_failed + t.nb_skipped

\* C3: after any sequence of add_success, add_failed and add_subtests a
\* TestResults has as many failure records as nb_failed counts and
\* nb_tests = nb_success + nb_failed + nb_skipped, and no operation
\* decreases a counter.
C3_CountersAgree ==
    /\ [](\A i \in 1..2 : CountersAgree(trs[i]))
    /\ [][\A i \in 1..2 :
            /\ trs'[i].nb_tests >= trs[i].nb_tests
            /\ trs'[i].nb_success >= trs[i].nb_success
            /\ trs'[i].nb_failed >= trs[i].nb_failed
            /\ trs'[i].nb_skipped >= trs[i].nb_skipped
            /\ Len(trs'[i].failures) >= Len(trs[i].failures)]_vars

\* C3's case: sub-tests with a failure and a success were added to a
\* TestResults that had a failure of its own
C3_Witness ==
    /\ trop # None
    /\ trop.op = "add_subtests"
    /\ trs[trop.on].nb_failed = 2
    /\ trs[trop.on].nb_success = 1
    /\ trs[3 - trop.on].nb_failed = 1
    /\ trs[3 - trop.on].nb_success = 1

(***************************************************************************)
(* The claims on the random source, under SpecRand and SpecNum.            *)
(***************************************************************************)

IsPrefix(a, b) == Len(a) <= Len(b) /\ SubSeq(b, 1, Len(a)) = a

C6_NumRangeInBounds ==
    ncall # None =>
        /\ ncall.out.ok
        /\ ncall.min <= ncall.out.value
        /\ ncall.out.value <= ncall.max

(***************************************************************************)
(* The claims on the generators, under SpecGen.                            *)
(***************************************************************************)

\* the components of a composite, and the composite with another j-th one
ComponentsOf(g) == IF g.kind = "and" THEN <<g.gen_a, g.gen_b>> ELSE g.gens
WithComponent(g, j, c) ==
    IF g.kind = "and"
    THEN (IF j = 1 THEN and(c, g.gen_b) ELSE and(g.gen_a, c))
    ELSE tuple([g.gens EXCEPT ![j] = c])

IsComposite(g) == g.kind \in {"and", "tuple"}

\* C7: a composite of k components generates component i from the i-th
\* sub-stream derived from the shared source and leaves the source advanced
\* by exactly k draws, whatever the components consume; hence component i
\* and the source afterwards are the same whatever generator stands at any
\* other position.
C7_ComponentsUseOwnSubStreams ==
    (gcall # None /\ IsComposite(gcall.g) /\ gcall.out.ok) =>
        LET cs == ComponentsOf(gcall.g)
        IN  /\ gcall.out.r = next_n(gcall.before, Len(cs))
            /\ Len(gcall.out.value) = Len(cs)
            /\ \A i \in 1..Len(cs) :
                  gcall.out.value[i]
                      = gen(cs[i], sub_child(next_n(gcall.before, i - 1))).value
            /\ \A i \in 1..Len(cs), j \in 1..Len(cs), c \in Components :
                  LET other == gen(WithComponent(gcall.g, j, c), gcall.before)
                  IN  (i # j /\ other.ok) =>
                          /\ other.value[i] = gcall.out.value[i]
                          /\ other.r = gcall.out.r

\* C7's case: a pair whose first component took a varying number of draws
\* (at least two) of its sub-stream and whose second took one, on a source
\* that had been used before
C7_Witness ==
    /\ gcall # None
    /\ gsteps = 2
    /\ gcall.g.kind = "and"
    /\ gcall.g.gen_a.kind = "such_that"
    /\ gcall.g.gen_b = num("u8")
    /\ gcall.out.ok
    /\ gen(gcall.g.gen_a, sub_child(gcall.before)).drawn >= 2

\* the generator returns a value on every source
Total(b) == b.kind # "range" \/ (b.start <= b.end /\ b.end - b.start < 255)

\* C8: such_that(f) never returns a value f rejects: it returns a value f
\* accepts or, its underlying generator returning values, fails with the
\* rejection-exhaustion failure.
C8_NeverReturnsRejected ==
    (gcall # None /\ gcall.g.kind = "such_that") =>
        /\ gcall.out.ok => Accepts(gcall.g.f, gcall.out.value)
        /\ (~gcall.out.ok /\ Total(gcall.g.generator)) =>
              gcall.out.panic = SuchThatRetryFailure

\* C8's case: a value was returned after candidates were rejected
C8_Witness ==
    /\ gcall # None
    /\ gcall.g = such_that(num("u8"), "lt16")
    /\ gcall.out.ok
    /\ gcall.out.drawn >= 3

\* the draws of the source one candidate of the generator takes
RawDraws(b) == IF b.kind = "constant" THEN 0 ELSE 1

Exhausted(c) ==
    c # None /\ c.g.kind = "such_that" /\ c.out.panic = SuchThatRetryFailure

\* C9 as stated: the retry budget being 1000, exhaustion is reported after
\* exactly 1000 candidates were drawn and rejected, never more.
C9_ExhaustsAfter1000Candidates ==
    /\ Exhausted(gcall) => gcall.out.drawn = 1000
    /\ (gcall # None /\ gcall.g.kind = "such_that") => gcall.out.drawn <= 1000

\* C9 amended: the retry budget being 1000, exhaustion is reported after
\* exactly 1001 candidates (the first one and 1000 retries) were drawn and
\* rejected, never more, all of them drawn from the same source, which each
\* candidate advances.
C9_ExhaustsAfter1001Candidates ==
    /\ Exhausted(gcall) => gcall.out.drawn = 1001
    /\ (gcall # None /\ gcall.g.kind = "such_that") =>
          /\ gcall.out.drawn <= 1001
          /\ Total(gcall.g.generator) =>
                gcall.out.r
                    = next_n(gcall.before, gcall.out.drawn * RawDraws(gcall.g.generator))

\* C9's case: a predicate rejected every candidate drawn from the source
C9_Witness ==
    /\ Exhausted(gcall)
    /\ gcall.g.generator = num("u8")
    /\ gcall.out.drawn = 1001
    /\ gcall.out.r = next_n(gcall.before, 1001)

(***************************************************************************)
(* The claims on InitOnce, under SpecInitOnce.                             *)
(***************************************************************************)

\* C10: across the interleavings of concurrent load() calls the initializer
\* is executed at most once in total, exactly once as soon as a load() has
\* gone past its compare-and-swap branch, and only by the caller whose
\* compare-and-swap observed Uninitialized; a caller that observed
\* Initializing or Done never executes its function.
C10_InitializerRunsAtMostOnce ==
    /\ Len(f_runs) <= 1
    /\ \A i \in 1..Len(f_runs) : f_runs[i].observed = STATUS_UNINIT
    /\ \A t \in Threads :
          /\ (tpc[t] \in {"write", "store"} \/ loads[t] > 0) => Len(f_runs) = 1
          /\ (tpc[t] \in {"call", "write", "store"}) => tstatus[t] = STATUS_UNINIT

\* C10's case: one thread observed Uninitialized and ran the initializer,
\* another was in load() meanwhile, observed Initializing, waited and
\* returned, and a later load() observed Done and returned the same value
C10_Witness ==
    /\ Len(f_runs) = 1
    /\ \E u \in Threads, w \in Threads :
          /\ f_runs[1].thread # u
          /\ loads[u] = 1
          /\ tpc[u] = "idle"
          /\ tstatus[u] = STATUS_INITING
          /\ loads[w] >= 1
          /\ tpc[w] = "idle"
          /\ tstatus[w] = STATUS_DONE
          /\ got[w] = got[u]

\* the steps of load() by thread t that read the cell, and that write it
ReadStep(t) == tpc[t] = "read" /\ tpc'[t] = "idle"
WriteStep(t) == tpc[t] = "write" /\ tpc'[t] = "store"

\* C11: no load() reads or returns the content of the slot while the status
\* is not Done, the slot is written at most once, and the status only moves
\* Uninitialized -> Initializing -> Done, Done being terminal; so every
\* load() returns the one committed value, and every Context::new() without
\* a seed override (a load() of the process-wide slot) gets the same seed.
C11_CommittedOnceReadWhenDone ==
    /\ [](\A t \in Threads, u \in Threads :
              (loads[t] > 0 /\ loads[u] > 0) => (got[t] = got[u] /\ got[t] = content))
    /\ [][/\ status' # status =>
                \/ status = STATUS_UNINIT /\ status' = STATUS_INITING
                \/ status = STATUS_INITING /\ status' = STATUS_DONE
          /\ content # Uninit => content' = content
          /\ \A t \in Threads :
                /\ ReadStep(t) =>
                      /\ status = STATUS_DONE
                      /\ content # Uninit
                      /\ got'[t] = content
                /\ WriteStep(t) => (content = Uninit /\ status = STATUS_INITING)]_vars

\* C11's case: the second thread committed its value, and each of the three
\* threads has returned from two load() calls, with that value
C11_Witness ==
    /\ Len(f_runs) = 1
    /\ f_runs[1].thread = 2
    /\ \A t \in 1..3 : loads[t] = 2 /\ got[t] = f(2)
    /\ content = f(2)

(***************************************************************************)
(* The claims on run() and on the aggregate, under Spec.                   *)
(***************************************************************************)

\* C12: when the body returns, run() decides from the aggregate alone: with
\* zero tests it prints nothing and returns; with a failed iteration it
\* prints every failure record in recorded order with its 0-based index and
\* raises the fatal error carrying the failed and total counts; otherwise it
\* prints the passed summary and returns.  The fatal error is raised if and
\* only if nb_failed > 0.
C12_ReportFollowsAggregate ==
    report # None =>
        LET tr == ctx.test_results
        IN  /\ tr.nb_tests = 0 =>
                  (report.printed = <<>> /\ report.fatal = None /\ pc = "returned")
            /\ tr.nb_failed > 0 =>
                  /\ Len(report.printed) = tr.nb_failed
                  /\ \A i \in 1..Len(tr.failures) :
                        /\ report.printed[i].line = "# Failure"
                        /\ report.printed[i].index = i - 1
                        /\ report.printed[i].failure = tr.failures[i]
                  /\ report.fatal = [nb_failed |-> tr.nb_failed, nb_tests |-> tr.nb_tests]
                  /\ pc = "fatal"
            /\ (tr.nb_tests > 0 /\ tr.nb_failed = 0) =>
                  /\ report.printed = <<[line |-> "Passed", nb_tests |-> tr.nb_tests]>>
                  /\ report.fatal = None
                  /\ pc = "returned"
            /\ (report.fatal # None) <=> (tr.nb_failed > 0)

\* C12's case: the body ran two Ensure values, two of the four iterations
\* failed in different ways, and run() printed both and raised the error
C12_Witness ==
    /\ report # None
    /\ pc = "fatal"
    /\ report.fatal = [nb_failed |-> 2, nb_tests |-> 4]
    /\ report.printed[1].index = 0
    /\ report.printed[2].index = 1
    /\ report.printed[1].failure.kind # report.printed[2].failure.kind

\* C13: Testable::run merges the TestResults of an Ensure into the aggregate
\* of the Context by accumulation: each counter of the aggregate is its
\* previous value plus the counter of the Ensure, the failure records of the
\* Ensure come after the records already there, in their order, and the
\* durations are added; so several Ensure runs report the sum of their
\* results.
C13_MergeAccumulates ==
    [][(pc = "test" /\ pc' = "body") =>
          LET old == ctx.test_results
              sub == returned'
              new == ctx'.test_results
          IN  /\ new.nb_tests = old.nb_tests + sub.nb_tests
              /\ new.nb_success = old.nb_success + sub.nb_success
              /\ new.nb_failed = old.nb_failed + sub.nb_failed
              /\ new.nb_skipped = old.nb_skipped + sub.nb_skipped
              /\ new.failures = old.failures \o sub.failures
              /\ new.duration = old.duration + sub.duration
              /\ sub.nb_tests = ctx.nb_tests
              /\ ctx'.seed = ctx.seed
              /\ ctx'.nb_tests = ctx.nb_tests]_vars

\* C13's case: the second Ensure of a Context was merged, each of the two
\* having a failure of its own and a duration
C13_Witness ==
    /\ pc = "body"
    /\ ensures_run = 2
    /\ returned # None
    /\ returned.nb_failed = 1
    /\ returned.duration = 1
    /\ ctx.test_results.nb_tests = 4
    /\ ctx.test_results.nb_failed = 2
    /\ ctx.test_results.duration = 2
    /\ ctx.test_results.failures[2] = returned.failures[1]
    /\ ctx.test_results.failures[1] # returned.failures[1]

(***************************************************************************)
(* The claims on one_of and frequency, under SpecBuild.                     *)
(***************************************************************************)

RECURSIVE SumWeights(_, _)
SumWeights(gens, i) ==
    IF i > Len(gens) THEN 0 ELSE gens[i].weight + SumWeights(gens, i + 1)

Occurrences(table, idx) == Cardinality({k \in 1..Len(table) : table[k] = idx})

\* a frequency generator was built from weights of positive sum
WeightedBuilt ==
    /\ built # None
    /\ built.fn = "frequency"
    /\ built.arg # <<>>
    /\ SumWeights(built.arg, 1) > 0

\* the position of the table that a draw on the source before the call selects
PositionDrawn(table, before) == Rem(next_output(before), Len(table))

\* C14: a frequency generator built from non-empty weights of positive sum has
\* a table of length the sum of the weights, holding index i exactly weight_i
\* times; sampling takes the table position given by one draw reduced to
\* 0..len-1, so a generator of weight 0 is never the one selected, and the
\* value is what the selected generator gives on the sub-stream derived from
\* the source after that draw, the source itself advancing by one more step
C14_FrequencyFollowsWeights ==
    WeightedBuilt =>
        /\ built.out.ok
        /\ LET table == built.out.generator.frequencies
               gens == built.out.generator.generators
           IN  /\ gens = built.arg
               /\ Len(table) = SumWeights(gens, 1)
               /\ \A i \in 1..Len(gens) : Occurrences(table, i - 1) = gens[i].weight
               /\ \A k \in 1..Len(table) : table[k] \in 0..(Len(gens) - 1)
               /\ gcall # None =>
                     LET pos == PositionDrawn(table, gcall.before)
                         idx == table[pos + 1]
                         after == next_state(gcall.before)
                     IN  /\ pos \in 0..(Len(table) - 1)
                         /\ gens[idx + 1].weight > 0
                         /\ gcall.out.ok
                         /\ gcall.out.value = gen(gens[idx + 1].gen, sub_child(after)).value
                         /\ gcall.out.r = next_state(after)

\* reached: weights (0,2,1) were given and the sample came from the integer
\* generator of weight 1, the last of the three
C14_Witness ==
    /\ WeightedBuilt
    /\ Len(built.arg) = 3
    /\ built.arg[1].weight = 0
    /\ gcall # None
    /\ gcall.out.ok
    /\ PositionDrawn(built.out.generator.frequencies, gcall.before) = 2
    /\ gcall.out.value \notin {1, 2}

\* one_of was called with no values
EmptyOneOf == built # None /\ built.fn = "one_of" /\ built.arg = <<>>

\* C15: one_of called with an empty set of values fails when the generator is
\* constructed: the constructor gives no generator, so no sample of it is
\* ever taken and no panic comes out of sampling
C15_EmptyOneOfFailsAtConstruction ==
    EmptyOneOf =>
        /\ ~built.out.ok
        /\ built.out.panic # NoPanic
        /\ gcall = None

(***************************************************************************)
(* The claims on Seed as text, under SpecSeed.                             *)
(***************************************************************************)

ZeroSeedText == Join(<<Repeat("0", 8), Repeat("0", 8), Repeat("0", 8), Repeat("0", 8)>>)

\* four groups of eight uppercase hexadecimal digits separated by hyphens
Canonical(str) ==
    /\ Len(str) = 35
    /\ \A i \in 1..35 :
          IF i \in {9, 18, 27} THEN str[i] = "-"
          ELSE \E k \in 1..16 : UpperHex[k] = str[i]

\* C16: the text written for a seed is of the canonical form, its groups are
\* the four 32-bit words of the seed from the most significant one, the zero
\* seed is written 00000000-00000000-00000000-00000000, and parsing the text
\* written for a seed gives that seed back
C16_SeedRoundTrip ==
    (seed_in # None /\ text # None) =>
        /\ Canonical(text)
        /\ \A g \in 1..4 : \A b \in 1..4 :
              LET byte == seed_in[16 - 4 * (g - 1) - (b - 1)]
                  at == 9 * (g - 1) + 2 * (b - 1) + 1
              IN  /\ text[at] = UpperHex[(byte \div 16) + 1]
                  /\ text[at + 1] = UpperHex[(byte % 16) + 1]
        /\ (seed_in = [k \in 1..16 |-> 0]) => text = ZeroSeedText
        /\ parsed # None => parsed.ok /\ parsed.seed = seed_in

\* reached: a seed whose four words differ was written and parsed back
C16_Witness ==
    /\ seed_in # None
    /\ parsed # None
    /\ parsed.ok
    /\ Cardinality({SubSeq(seed_in, 4 * g - 3, 4 * g) : g \in 1..4}) >= 3
    /\ SubSeq(seed_in, 13, 16) = <<4, 3, 2, 1>>
    /\ SubSeq(text, 1, 8) = <<"0", "1", "0", "2", "0", "3", "0", "4">>

\* C17: a text is accepted if and only if it is four groups of eight
\* uppercase hexadecimal digits separated by hyphens; any other text gives
\* an error, the one on the number of groups or the one naming the first
\* group that is not of that form, and no seed
C17_AcceptsExactlyCanonical ==
    (text # None /\ parsed # None) =>
        /\ parsed.ok <=> Canonical(text)
        /\ ~parsed.ok => parsed.seed = <<>> /\ parsed.err # ""

(***************************************************************************)
(* The claims on and / or, under SpecProp.                                 *)
(***************************************************************************)

\* the value a branch contributes to the element of an `and`
BranchOfAnd(o) == IF o.passed THEN Str("passed") ELSE Tree(<<o.element>>)

\* C18: the result of and(A, B) is Passed exactly when the results of A and
\* of B are both Passed; otherwise it is Failed with an element named "and"
\* whose value is a tree of exactly two elements, "left" then "right", a
\* failed branch giving its whole element as a nested tree and a passed one
\* the string "passed"
C18_AndResult ==
    (outcome # None /\ ~IsRelation(property) /\ property.kind = "and") =>
        LET a == Property_result(property.prop_a)
            b == Property_result(property.prop_b)
        IN  /\ outcome.passed <=> (a.passed /\ b.passed)
            /\ outcome.passed => outcome = Passed
            /\ ~outcome.passed =>
                  /\ outcome.element.name = "and"
                  /\ "tree" \in DOMAIN outcome.element.value
                  /\ Len(outcome.element.value.tree) = 2
                  /\ outcome.element.value.tree[1] = [name |-> "left", value |-> BranchOfAnd(a)]
                  /\ outcome.element.value.tree[2] = [name |-> "right", value |-> BranchOfAnd(b)]

\* reached: an `and` whose left branch, itself a composite, failed and whose
\* right branch passed
C18_Witness ==
    /\ outcome # None
    /\ ~IsRelation(property)
    /\ property.kind = "and"
    /\ ~IsRelation(property.prop_a)
    /\ ~Property_result(property.prop_a).passed
    /\ Property_result(property.prop_b).passed
    /\ ~outcome.passed

\* the depth of a diagnostic: the elements of properties nested in it
RECURSIVE DiagDepth(_)
DiagDepth(e) ==
    IF e.name \notin {"and", "or"} THEN 1
    ELSE LET sub(i) == IF "tree" \in DOMAIN e.value.tree[i].value
                       THEN DiagDepth(e.value.tree[i].value.tree[1]) ELSE 0
         IN  1 + (IF sub(1) >= sub(2) THEN sub(1) ELSE sub(2))

\* every relation under p fails
RECURSIVE AllFail(_)
AllFail(p) ==
    IF IsRelation(p) THEN ~Property_result(p).passed
    ELSE AllFail(p.prop_a) /\ AllFail(p.prop_b)

Indented(lines, by) ==
    [i \in 1..Len(lines) |-> [lines[i] EXCEPT !.indent = lines[i].indent + by]]

C20_SiblingsDiffer ==
    children # None =>
        /\ children.a # children.b
        /\ next_output(children.a) # next_output(children.b)

(***************************************************************************)
(* The claims on the panic hook, under SpecHook.                           *)
(***************************************************************************)

\* one run() was called, it returned, and no other was started
OneRunReturned ==
    \E t \in Runners :
        /\ rpc[t] = "returned"
        /\ \A u \in Runners \ {t} : rpc[u] = "start"

\* C21: once the body of a run() has finished and run() is past it, the hook
\* registered is the one that was registered before run() was called, the
\* default one or one the program registered
C21_HookRestored ==
    OneRunReturned => hook = hook_before

\* C22: under every interleaving of runs on several threads, every panic in
\* the body of a run invokes dont_print_panic, and that hook is the one
\* registered for as long as a body is executing
C22_HookHeldDuringBody ==
    \A t \in Runners :
        /\ seen[t] \subseteq {"dont_print_panic"}
        /\ rpc[t] = "body" => hook = "dont_print_panic"

(***************************************************************************)
(* The claims on isolation and on the outcome of an iteration, under Spec. *)
(***************************************************************************)

\* forall(num::<u8>()).ensure(|x| equal(*x, *x + 1))
IncrementEnsure == [generator |-> num("u8"), property_closure |-> "equal_x_x1"]

\* C23: under forall(num::<u8>()).ensure(|x| equal(*x, *x + 1)) no iteration
\* is counted as a pass, the input 255 included; a test of N >= 1 iterations
\* that returns reports N failures and no success, and the record of the
\* k-th failure holds the u8 input generated for iteration k
C23_IncrementAlwaysFails ==
    (ensure = IncrementEnsure) =>
        /\ (last # None) => last.outcome # "passed"
        /\ (result # None) => result.nb_success = 0
        /\ (returned # None /\ ctx.nb_tests >= 1) =>
              /\ returned.nb_failed = ctx.nb_tests
              /\ returned.nb_success = 0
              /\ Len(returned.failures) = ctx.nb_tests
              /\ \A k \in 1..Len(returned.failures) :
                    /\ returned.failures[k].input \in 0..255
                    /\ returned.failures[k].input
                         = gen(num("u8"), NthStream(ctx.seed, k - 1)).value
              /\ ctx.test_results.nb_failed >= 1

\* reached: two iterations, the first on the input 255 whose increment
\* overflows and panics, the panic being caught, both reported as failures
C23_Witness ==
    /\ ensure = IncrementEnsure
    /\ returned # None
    /\ returned.nb_failed = 2
    /\ returned.failures[1].input = 255
    /\ returned.failures[1].kind = "panic"
    /\ returned.failures[2].kind = "property failed"

\* the property closure is about to be called on an input on which it panics
ClosureWillPanic ==
    /\ pc = "eval"
    /\ closure_call(ensure.property_closure, input.value).panic # NoPanic

\* C24: with isolation disabled, a panic of the property closure is not made
\* a failed iteration: the step that calls the closure ends the run with that
\* panic, leaving the counters of the test, the iteration index, the results
\* of the Context and the report as they were, and once the run is aborted
\* nothing more happens: no iteration, no merge and no report
C24_NoIsolationAborts ==
    [][ /\ pc # "aborted"
        /\ (no_catch_panic /\ ClosureWillPanic) =>
              /\ pc' = "aborted"
              /\ panic' = closure_call(ensure.property_closure, input.value).panic
              /\ result' = result
              /\ iter' = iter
              /\ ctx' = ctx
              /\ returned' = None
              /\ report' = None ]_vars

\* reached: the run was aborted by the closure in the second iteration, the
\* first having been counted in the test's own results, which the Context
\* did not receive
C24_Witness ==
    /\ no_catch_panic
    /\ pc = "aborted"
    /\ last # None
    /\ last.closure_panic # NoPanic
    /\ last.closure_panic = panic
    /\ iter = 1
    /\ result.nb_tests = 1
    /\ ctx.test_results.nb_tests = 0
    /\ report = None

\* C25: with isolation enabled, a panic raised while an iteration's property
\* is evaluated, the computation of its Outcome included, is recorded as one
\* failed iteration and the loop goes on: the run is never aborted once the
\* input of the iteration has been generated
C25_EvaluationPanicIsRecorded ==
    (~no_catch_panic /\ pc = "aborted" /\ last # None) => last.outcome = "no input"

(***************************************************************************)
(* The claims on the progress of InitOnce, under SpecInitOnceFair.         *)
(***************************************************************************)

\* C26: under fair scheduling and an initializer that returns, every load()
\* call eventually returns, a status that left Uninitialized eventually is
\* Done, and a thread waiting on Initializing eventually leaves its loop
C26_EveryLoadReturns ==
    /\ \A t \in Threads : (tpc[t] # "idle") ~> (tpc[t] = "idle")
    /\ \A t \in Threads : (tpc[t] = "wait") ~> (tpc[t] = "read")
    /\ (status # STATUS_UNINIT) ~> (status = STATUS_DONE)
    /\ [](status = STATUS_DONE => [](status = STATUS_DONE))

\* reached: two threads found the status Initializing, waited, and returned
\* once the third had stored Done
C26_Witness ==
    /\ status = STATUS_DONE
    /\ Cardinality({t \in Threads : loads[t] >= 1 /\ tstatus[t] = STATUS_INITING}) >= 2
    /\ \A t \in Threads : tpc[t] = "idle"

(***************************************************************************)
(* The claims on an initializer that aborts, under SpecInitOnceAbort.      *)
(***************************************************************************)

\* an initializer aborted
Aborted == \E i \in 1..Len(f_runs) : "aborted" \in DOMAIN f_runs[i]

\* C28: once the initializer has aborted after its caller moved the status to
\* Initializing, the status is Initializing in every later state, the slot
\* is never written, no initializer runs again, and no load() call returns:
\* every thread in load() is in the wait loop
C28_AbortLeavesInitializing ==
    Aborted =>
        /\ status = STATUS_INITING
        /\ content = Uninit
        /\ Len(f_runs) = 1
        /\ \A t \in Threads :
              /\ tpc[t] \in {"idle", "wait"}
              /\ loads[t] = 0
              /\ got[t] = Uninit

\* reached: the initializer of one thread aborted, and all the threads, that
\* one included in a later call, are in the wait loop
C28_Witness ==
    /\ Aborted
    /\ \A t \in Threads : tpc[t] = "wait"

\* the child the claim describes for a parent of words w0, w1 whose next()
\* returns n: (w0 * n, w1 + n), wrapping
ChildOf(w0, w1, n) ==
    [s0 |-> WrappingMul(w0, ZeroExtend(n, 8)), s1 |-> WrappingAdd(w1, ZeroExtend(n, 8))]

\* C27: each sub() advances the parent by one next() step and makes the child
\* (word0 * n, word1 + n) from the parent's words before the advance and the
\* output n of that step; draws made afterwards on a child change that child
\* only, neither the parent nor the sibling
C27_SubAdvancesOnceAndDetaches ==
    /\ [](children # None =>
            LET p0 == children.before
                p1 == next_state(p0)
            IN  /\ children.a = ChildOf(p0.s0, p0.s1, next_output(p0))
                /\ children.b = ChildOf(p1.s0, p1.s1, next_output(p1))
                /\ parent = next_state(p1)
                /\ \E i \in 0..children.draws :
                      /\ children.a_now = next_n(children.a, i)
                      /\ children.b_now = next_n(children.b, children.draws - i))
    /\ [][children # None =>
             /\ parent' = parent
             /\ children'.a_now = children.a_now \/ children'.b_now = children.b_now]_vars

\* reached: two children of a parent that had itself been drawn from, whose
\* words are not degenerate, one child drawn from twice and the other not
C27_Witness ==
    /\ children # None
    /\ parent_steps >= 1
    /\ children.a.s0 # [k \in 1..8 |-> 0]
    /\ children.draws = 2
    /\ children.a_now = next_n(children.a, 2)
    /\ children.a_now # children.a
    /\ children.b_now = children.b

(***************************************************************************)
(* The claims on range and on the alternation generators, under SpecBuild. *)
(***************************************************************************)

\* range(start..end) was sampled
RangeSampled == built # None /\ built.fn = "range" /\ gcall # None

\* C29: range(start..end) with start <= end returns a value v with
\* start <= v <= end, so range(s..s) gives s, and with start > end the
\* generation aborts
C29_RangeIsInclusive ==
    RangeSampled =>
        IF built.arg.start <= built.arg.end
        THEN /\ gcall.out.ok
             /\ built.arg.start <= gcall.out.value
             /\ gcall.out.value <= built.arg.end
        ELSE ~gcall.out.ok

\* an alternation generator was sampled, and its selector was drawn
AlternationSampled ==
    /\ built # None
    /\ built.fn \in {"or", "choose", "frequency"}
    /\ gcall # None
    /\ (gcall.out.ok \/ gcall.out.panic.msg = "assertion failed: min_value <= max_value")

====
